---- MODULE Spec2Model ----
(***************************************************************************)
(* A model of the registry server: the upload session store and its HTTP  *)
(* handlers served concurrently (Spec, SpecAppend) or one request after    *)
(* the other (SpecSeq, SpecFinalize), the periodic cleanup of stale        *)
(* sessions (SpecPrune), the manifest store (SpecManifest) and the path    *)
(* layout (SpecPaths); the upstream client and its authentication          *)
(* (SpecAuth), the authentication strategies (SpecStrategy), the cache of  *)
(* upstream clients (SpecClients, and SpecClientsLive under fair           *)
(* scheduling) and the pull-through proxy of blobs (SpecProxyBlob,         *)
(* SpecProxyTee) and manifests (SpecProxyManifest).                        *)
(*                                                                         *)
(* Strings are modelled by structured values so that the conversions the  *)
(* code performs (parsing an upload id, splitting a digest, serialising    *)
(* metadata) are computations:                                             *)
(*   <<"uuid", n>>     the canonical rendering of upload id n              *)
(*   <<"UUID", n>>     another rendering of the same id accepted by the    *)
(*                     uuid parser (braced / upper case)                   *)
(*   <<"junk", n>>     a string that is not a uuid                         *)
(*   <<"sha256:", n>>  the digest string "sha256:<hex n>"                  *)
(*   <<"hex", n>>      the bare hex string n                               *)
(*   <<"nocolon", n>>  a digest string without a ':'                       *)
(*   <<"tag", n>>      a tag name                                          *)
(* File contents are sequences of small integers (bytes).                  *)
(***************************************************************************)
EXTENDS Integers, Sequences, FiniteSets, TLC

\* ---------------------------------------------------------------- bounds

\* Number of upload ids the process hands out.
MaxUploads == 2

\* Number of HTTP requests served in one behaviour.
MaxRequests == 3

\* Number of HTTP requests served in a behaviour that serves them one
\* after the other.
MaxSeqRequests == 4

\* Number of manifest requests served in one behaviour.
MaxManifestRequests == 2

\* Number of clock advances in one behaviour.
MaxTicks == 4

\* Number of calls of DockerClient::authenticate in one behaviour.
MaxAuthCalls == 3

\* Strategies built in a behaviour of SpecStrategy.
MaxStrategies == 2

\* Half seconds that pass in a behaviour of SpecStrategy.
MaxElapsed == 4

\* Requests served by the proxy in a behaviour of SpecProxyBlob or
\* SpecProxyManifest.
MaxProxyRequests == 2

\* Requests served in a behaviour of SpecProxyTee.
MaxTeeRequests == 1

\* Calls of get_client in one behaviour of SpecClients.
MaxClientCalls == 3

\* Clock advances in one behaviour of SpecClients: each one ends the
\* lifetime of the bearer tokens issued before it.
MaxClientTicks == 1

\* Number of get_client calls in the behaviours checked for termination.
MaxLiveCalls == 2

\* ------------------------------------------------------- program constants

UPLOAD_PRUNE_INTERVAL == 60

UPLOAD_PRUNE_AGE == 180

\* ------------------------------------------------------------- universes

\* Concurrently served requests (tokio tasks).
Procs == {1, 2}

NoProc == 0

NoUpload == 0

Uuids == 1..MaxUploads

\* Container references a client may put in the URL; ".." is rejected.
ContainerRefs == {"a", ".."}

\* The marker of a request body stream item that fails (axum::Error).
StreamErr == <<-1>>

\* Request bodies: sequences of chunks.
Streams ==
    { <<>>, << <<>> >>, << <<1>> >>, << <<1>>, <<2>> >>, << <<1>>, StreamErr >> }

\* Upload id strings a client may send.
RawUuids ==
    {<<"uuid", u>> : u \in Uuids} \cup {<<"junk", 0>>}

\* ---------------------------------------------------------------- helpers

Put(f, k, v) == [x \in DOMAIN f \cup {k} |-> IF x = k THEN v ELSE f[x]]

Del(f, k) == [x \in DOMAIN f \ {k} |-> f[x]]

RECURSIVE Flatten(_)
\* The bytes of a stream without failing items, in order.
Flatten(s) ==
    IF s = <<>> THEN <<>>
    ELSE (IF Head(s) = StreamErr THEN <<>> ELSE Head(s)) \o Flatten(Tail(s))

HasErr(s) == \E i \in 1..Len(s) : s[i] = StreamErr

RECURSIVE Sha256(_)
\* sha2::Sha256 over a byte sequence, as an injective encoding (collision
\* freedom is the only property of the hash the program relies on).
Sha256(bytes) ==
    IF bytes = <<>> THEN 0 ELSE (Head(bytes) + 1) + 4 * Sha256(Tail(bytes))

\* pos bytes of content, zero filled when content is shorter (a hole).
Prefix(content, pos) ==
    [i \in 1..pos |-> IF i <= Len(content) THEN content[i] ELSE 0]

\* write(2) of chunk at offset pos of a file holding content.
WriteAt(content, pos, chunk) ==
    Prefix(content, pos) \o chunk
        \o SubSeq(content, pos + Len(chunk) + 1, Len(content))

\* ------------------------------------------------------------------ paths

\* Uuid::to_string
UuidToString(u) == <<"uuid", u>>

\* RegistryPathsHelper::temporary_blob_path
temporary_blob_path(upload_id) == <<"blobs", UuidToString(upload_id)>>

\* RegistryPathsHelper::blob_path
blob_path(container_ref, hash) == <<container_ref, "_repository", "blobs", hash>>

\* RegistryPathsHelper::manifest_path
manifest_path(container_ref, manifest_ref) ==
    <<container_ref, "_repository", "manifests", manifest_ref>>

\* RegistryPathsHelper::manifest_meta
manifest_meta(container_ref, manifest_ref) ==
    <<container_ref, "_repository", "meta", manifest_ref>>

\* ref_is_valid: no ".." and not blank.
ref_is_valid(rref) == rref # ".." /\ rref # ""

\* reject_invalid_tags_refs: ref_is_valid of a manifest reference.
tag_is_valid(manifest_ref) == manifest_ref[1] # ".."

\* str::parse::<Uuid>: the parsed id, or NoUpload for a uuid::Error.
ParseUuid(raw) == IF raw[1] \in {"uuid", "UUID"} THEN raw[2] ELSE NoUpload

\* str::split_once(':') of a digest string: the part after the colon, or
\* <<"none", 0>> when there is no colon.
SplitOnce(digest) ==
    IF digest[1] = "sha256:" THEN <<"hex", digest[2]>> ELSE <<"none", 0>>

\* ----------------------------------------------------------------- errors

\* RegistryHttpError::into_response: the status and the registry error code.
IntoResponse(err) ==
    CASE err = "InvalidRepositoryName" -> [status |-> 400, code |-> "NAME_INVALID"]
      [] err = "InvalidTagName" -> [status |-> 400, code |-> "TAG_INVALID"]
      [] err = "InvalidHashFormat" -> [status |-> 400, code |-> "UNSUPPORTED"]
      [] err = "UploadIdNotFound" -> [status |-> 404, code |-> "BLOB_UPLOAD_UNKNOWN"]
      [] err = "ManifestNotFound" -> [status |-> 404, code |-> "NAME_UNKNOWN"]
      [] OTHER -> [status |-> 500, code |-> "UNKNOWN"]

\* A conversion of uuid::Error that goes through the catch-all instead.
FromUuidError_internal == "RegistryInternalError"

\* impl From<uuid::Error> for RegistryHttpError
FromUuidError == "UploadIdNotFound"

\* impl_from!(std::io::Error), impl_from!(axum::Error), impl_from!(eyre::Report)
FromIoError == "RegistryInternalError"

\* ------------------------------------------------------------------ state

VARIABLES
    uploads,        \* UploadsStore.inner: uuid -> Upload
    mapLock,        \* the RwLock around UploadsStore.inner
    sessLock,       \* per upload, the tasks holding a read guard of its RwLock
    next_uuid,      \* the next id Uuid::new_v4 returns (ids are never reused)
    tempFs,         \* files under temporary_registry_storage: path -> bytes
    regFs,          \* files under registry_storage: path -> bytes
    now,            \* the clock (Instant::now), in seconds
    ticks,          \* number of clock advances so far
    pruneDue,       \* the cleanup task's sleep has elapsed
    pc,             \* per task, the position in its handler
    task,           \* per task, the handler's arguments and locals
    resp,           \* per task, the response of the finished handler
    nreq,           \* number of requests started
    budget,         \* number of requests the behaviour serves
    blocking,       \* writes handed to tokio's blocking pool, not run yet
    sent,           \* history: per upload, the bytes accepted so far
    clean,          \* history: per upload, every request so far ran alone and succeeded
    lastActivity,   \* history: per upload, the time of the last request on it
    cancelled       \* history: uploads whose cancel request was answered

NoTarget == [root |-> "none", path |-> <<>>]

Unlinked == [root |-> "unlinked", path |-> <<>>]

NoResp ==
    [status |-> 0, code |-> "", range |-> -1, uuid |-> NoUpload,
     digest |-> <<>>, content_type |-> "", content |-> <<>>, length |-> -1]

IdleTask ==
    [kind |-> "none", container_ref |-> "", raw_uuid |-> <<"junk", 0>>,
     body |-> <<>>, stream |-> <<>>, digest |-> <<"nocolon", 0>>,
     upload |-> NoUpload, upload_ref |-> "", existed |-> FALSE,
     mode |-> "none", pos |-> 0, target |-> NoTarget, olen |-> 0,
     pendingErr |-> FALSE, solo |-> TRUE, before |-> <<>>,
     honest |-> FALSE, afterCancel |-> FALSE, unknown |-> FALSE, expect |-> <<>>,
     stamp |-> 0, manifest_ref |-> <<"tag", 0>>, content_type |-> "",
     docker_hash |-> <<"none", 0>>, seq |-> 0]

InitUploads ==
    /\ uploads = <<>>
    /\ mapLock = [writer |-> NoProc, readers |-> {}]
    /\ sessLock = [u \in Uuids |-> {}]
    /\ next_uuid = 1
    /\ tempFs = <<>>
    /\ now = 0
    /\ ticks = 0
    /\ pruneDue = FALSE
    /\ pc = [p \in Procs |-> "idle"]
    /\ task = [p \in Procs |-> IdleTask]
    /\ resp = [p \in Procs |-> NoResp]
    /\ nreq = 0
    /\ sent = [u \in Uuids |-> <<>>]
    /\ clean = [u \in Uuids |-> TRUE]
    /\ lastActivity = [u \in Uuids |-> 0]
    /\ cancelled = {}
    /\ blocking = {}


\* ----------------------------------------------------- responses and locks

\* The response of a handler that returns Err(err).
ErrResp(err) ==
    [NoResp EXCEPT !.status = IntoResponse(err).status,
                   !.code = IntoResponse(err).code]

\* The response of an upload handler: the status, the end of the Range
\* header and the Docker-Upload-UUID header.
OkResp(status, range, uuid) ==
    [NoResp EXCEPT !.status = status, !.range = range, !.uuid = uuid]

InFlight(q) == pc[q] # "idle"

\* RwLock::read / RwLock::write can be granted.
CanRead(lock) == lock.writer = NoProc

CanWrite(lock) == lock.writer = NoProc /\ lock.readers = {}

AcquireRead(lock, p) == [lock EXCEPT !.readers = @ \cup {p}]

AcquireWrite(lock, p) == [lock EXCEPT !.writer = p]

\* A read guard that outlives UploadsStore::fetch_upload.
ReleaseRead_held(lock, p) == lock

\* Dropping the read guard at the end of UploadsStore::fetch_upload.
ReleaseRead(lock, p) == [lock EXCEPT !.readers = @ \ {p}]

\* Dropping the write guard at the end of create_upload / delete_upload.
ReleaseWrite(lock, p) == [lock EXCEPT !.writer = NoProc]

\* HashMap::insert on UploadsStore.inner
MapInsert(map, id, upload) == Put(map, id, upload)

\* A removal that leaves the entry in the map.
MapRemove_keep(map, id) == map

\* HashMap::remove on UploadsStore.inner
MapRemove(map, id) == Del(map, id)

\* The locals of a handler that returned: its file handle is dropped.
Closed(t) ==
    [t EXCEPT !.stream = <<>>, !.existed = FALSE, !.mode = "none", !.pos = 0,
              !.target = NoTarget, !.olen = 0, !.pendingErr = FALSE, !.stamp = 0]

\* The handler of task p returns r with final locals t: its guards are
\* dropped, the history of the upload it worked on is updated.
ReturnWith(p, r, t) ==
    /\ pc' = [pc EXCEPT ![p] = "idle"]
    /\ resp' = [resp EXCEPT ![p] = r]
    /\ task' = [task EXCEPT ![p] = Closed(t)]
    /\ sessLock' = [u \in Uuids |-> sessLock[u] \ {p}]
    /\ clean' =
        IF t.upload = NoUpload THEN clean
        ELSE [clean EXCEPT ![t.upload] = @ /\ t.solo /\ r.status \in 200..299]
    /\ sent' =
        IF r.status = 202 /\ t.kind = "append"
        THEN [sent EXCEPT ![t.upload] = @ \o Flatten(t.body)]
        ELSE sent

Return(p, r) == ReturnWith(p, r, task[p])

\* Open handles on the file at (root, path) follow it to target `to`.
Retarget(t, root, path, to, len) ==
    IF t.target = [root |-> root, path |-> path]
    THEN [t EXCEPT !.target = to, !.olen = len]
    ELSE t

\* ------------------------------------------------------- request arrival

\* The requests in flight on upload u, other than task p's.
Overlap(p, u) ==
    {q \in Procs \ {p} : InFlight(q) /\ ParseUuid(task[q].raw_uuid) = u /\ u # NoUpload}

\* The manifest saves in flight, other than task p's.
ManifestOverlap(p) ==
    {q \in Procs \ {p} : InFlight(q) /\ task[q].kind = "put_manifest"}

\* What the client has sent to the upload named raw once body is accepted.
Expected(raw, body) ==
    (IF ParseUuid(raw) \in Uuids THEN sent[ParseUuid(raw)] ELSE <<>>) \o Flatten(body)

NewTask(p, kind, ref, raw, body, digest) ==
    [IdleTask EXCEPT
        !.kind = kind, !.container_ref = ref, !.raw_uuid = raw,
        !.body = body, !.stream = body, !.digest = digest,
        !.stamp = IF kind = "initiate" THEN now ELSE 0,
        !.solo = Overlap(p, ParseUuid(raw)) = {},
        !.afterCancel = ParseUuid(raw) \in cancelled,
        !.expect = IF kind = "finalize" THEN Expected(raw, body) ELSE <<>>,
        !.honest =
            /\ ParseUuid(raw) \in Uuids
            /\ ParseUuid(raw) \in DOMAIN uploads
            /\ clean[ParseUuid(raw)]
            /\ ~HasErr(body)
            /\ digest = <<"sha256:", Sha256(Expected(raw, body))>>]

\* The handler's checks before it touches the store: the position it
\* continues at, or "idle" with the error it returns.
FirstStep(t) ==
    IF ~ref_is_valid(t.container_ref)
    THEN [pc |-> "idle", resp |-> ErrResp("InvalidRepositoryName")]
    ELSE IF t.kind \in {"put_manifest", "get_manifest"}
    THEN (IF ~tag_is_valid(t.manifest_ref)
          THEN [pc |-> "idle", resp |-> ErrResp("InvalidTagName")]
          ELSE [pc |-> IF t.kind = "put_manifest" THEN "m_create" ELSE "f_open",
                resp |-> NoResp])
    ELSE IF t.kind = "initiate"
    THEN [pc |-> "create", resp |-> NoResp]
    ELSE IF t.kind = "finalize" /\ SplitOnce(t.digest) = <<"none", 0>>
    THEN [pc |-> "idle", resp |-> ErrResp("InvalidHashFormat")]
    ELSE IF ParseUuid(t.raw_uuid) = NoUpload
    THEN [pc |-> "idle", resp |-> ErrResp(FromUuidError)]
    ELSE [pc |-> "fetch", resp |-> NoResp]

\* Task p is the first free task and the behaviour serves another request.
Free(p) ==
    /\ pc[p] = "idle"
    /\ \A q \in Procs : q < p => pc[q] # "idle"
    /\ nreq < budget

\* A request is served by the first free task.
Arrive(p, t) ==
    LET first == FirstStep(t) IN
    /\ Free(p)
    /\ nreq' = nreq + 1
    /\ pc' = [pc EXCEPT ![p] = first.pc]
    /\ resp' = [resp EXCEPT ![p] = first.resp]
    /\ task' = [q \in Procs |->
                  IF q = p THEN (IF first.pc = "idle" THEN Closed(t) ELSE t)
                  ELSE IF \/ q \in Overlap(p, ParseUuid(t.raw_uuid))
                          \/ t.kind = "put_manifest" /\ q \in ManifestOverlap(p)
                       THEN [task[q] EXCEPT !.solo = FALSE]
                       ELSE task[q]]
    /\ UNCHANGED <<uploads, mapLock, sessLock, next_uuid, tempFs, regFs, now,
                   ticks, budget, blocking, pruneDue, sent, clean, lastActivity, cancelled>>

\* The digests a client may name when it finalizes upload raw with body:
\* the digest of what it sent and, with an empty body, another digest and
\* a string without a colon.
ClientDigests(raw, body) ==
    { <<"sha256:", Sha256(Expected(raw, body))>> }
        \cup (IF body = <<>>
              THEN { <<"sha256:", Sha256(<<2, 2, 2>>)>>, <<"nocolon", 0>> }
              ELSE {})

\* The requests on an upload that differ in what the handler does with
\* them: a request rejected before its body is read comes with no body.
UploadRequests ==
    { r \in [ref : {"a", ".."}, raw : RawUuids, body : Streams] :
        /\ r.ref = ".." => r.raw = <<"junk", 0>>
        /\ r.raw = <<"junk", 0>> => r.body = <<>> }

\* POST /v2/:container_ref/blobs/uploads/
initiate_upload(p) ==
    /\ Free(p)
    /\ next_uuid + Cardinality({q \in Procs : pc[q] = "create"}) <= MaxUploads
    /\ \E ref \in ContainerRefs :
          Arrive(p, NewTask(p, "initiate", ref, <<"junk", 0>>, <<>>, <<"nocolon", 0>>))

\* PATCH /v2/:container_ref/blobs/uploads/:uuid
process_blob_chunk_upload(p) ==
    /\ Free(p)
    /\ \E r \in UploadRequests :
        Arrive(p, NewTask(p, "append", r.ref, r.raw, r.body, <<"nocolon", 0>>))

\* PUT /v2/:container_ref/blobs/uploads/:uuid?digest=
finalize_blob_upload_from(p, requests) ==
    /\ Free(p)
    /\ \E r \in requests :
        \E digest \in ClientDigests(r.raw, r.body) :
            Arrive(p, NewTask(p, "finalize", r.ref, r.raw, r.body, digest))

finalize_blob_upload(p) == finalize_blob_upload_from(p, UploadRequests)

\* Finalize requests on an upload id under the repository the sessions are
\* created under and under another valid repository name.
FinalizeRequests ==
    { r \in [ref : {"a", "b"}, raw : RawUuids, body : Streams] : r.raw # <<"junk", 0>> }

\* DELETE /v2/:container_ref/blobs/uploads/:uuid
delete_upload_handler(p) ==
    /\ Free(p)
    /\ \E r \in UploadRequests :
        /\ r.body = <<>>
        /\ Arrive(p, NewTask(p, "cancel", r.ref, r.raw, r.body, <<"nocolon", 0>>))

\* ------------------------------------------------------------ UploadsStore

\* Upload::new
NewUpload(container_reference, stamp) ==
    [container_reference |-> container_reference, last_interacted_with |-> stamp]

\* UploadsStore::create_upload under the map's write lock, and the rest of
\* initiate_upload: the answer 202 with Range 0-0 and the new id.
create_upload(p) ==
    /\ pc[p] = "create"
    /\ CanWrite(mapLock)
    /\ uploads' = MapInsert(uploads, next_uuid,
                            NewUpload(task[p].container_ref, task[p].stamp))
    /\ next_uuid' = next_uuid + 1
    /\ mapLock' = ReleaseWrite(AcquireWrite(mapLock, p), p)
    /\ lastActivity' = [lastActivity EXCEPT ![next_uuid] = now]
    /\ Return(p, OkResp(202, 0, next_uuid))
    /\ UNCHANGED <<tempFs, regFs, now, ticks, budget, blocking, pruneDue, nreq, cancelled>>

\* UploadsStore::fetch_upload_string_uuid under the map's read lock, the
\* handler's ok_or_else (the shared handle, or UploadIdNotFound), and
\* upload_lock.read().
fetch_upload(p) ==
    LET u == ParseUuid(task[p].raw_uuid) IN
    /\ pc[p] = "fetch"
    /\ CanRead(mapLock)
    /\ mapLock' = ReleaseRead(AcquireRead(mapLock, p), p)
    /\ IF u \in DOMAIN uploads
       THEN /\ task' = [task EXCEPT ![p].upload = u,
                                    ![p].upload_ref = uploads[u].container_reference]
            /\ pc' = [pc EXCEPT ![p] = IF task[p].kind = "cancel"
                                       THEN "cleanup" ELSE "wb_check"]
            /\ sessLock' = [sessLock EXCEPT ![u] = @ \cup {p}]
            /\ lastActivity' = [lastActivity EXCEPT ![u] = now]
            /\ UNCHANGED <<resp, clean, sent>>
       ELSE /\ ReturnWith(p, ErrResp("UploadIdNotFound"),
                          [task[p] EXCEPT !.unknown = TRUE])
            /\ UNCHANGED lastActivity
    /\ UNCHANGED <<uploads, next_uuid, tempFs, regFs, now, ticks, budget, blocking, pruneDue,
                   nreq, cancelled>>

\* UploadsStore::delete_upload under the map's write lock, and the handler's
\* answer: 201 for finalize_blob_upload, 204 for delete_upload.
delete_upload(p) ==
    /\ pc[p] = "del"
    /\ CanWrite(mapLock)
    /\ uploads' = MapRemove(uploads, task[p].upload)
    /\ mapLock' = ReleaseWrite(AcquireWrite(mapLock, p), p)
    /\ cancelled' = IF task[p].kind = "cancel"
                    THEN cancelled \cup {task[p].upload} ELSE cancelled
    /\ Return(p, OkResp(IF task[p].kind = "finalize" THEN 201 ELSE 204, -1,
                        task[p].upload))
    /\ UNCHANGED <<next_uuid, tempFs, regFs, now, ticks, budget, blocking, pruneDue, nreq,
                   lastActivity>>

\* ------------------------------------------------------------------ Upload

\* The file a handle of the given target refers to, <<>> when unlinked.
FileOf(target) ==
    IF target.root = "temp" /\ target.path \in DOMAIN tempFs THEN tempFs[target.path]
    ELSE IF target.root = "reg" /\ target.path \in DOMAIN regFs THEN regFs[target.path]
    ELSE <<>>

\* A write_blob that always takes the File::create branch.
write_blob_file_truncating(existed) == [mode |-> "wo", create |-> TRUE]

\* Upload::write_blob, the choice of File::open (read only) or File::create
\* (write only, truncating) by temporary_file_path.is_file().
write_blob_file(existed) ==
    IF existed THEN [mode |-> "ro", create |-> FALSE]
    ELSE [mode |-> "wo", create |-> TRUE]

\* Upload::write_blob: self.temporary_file_path.is_file()
write_blob_is_file(p) ==
    /\ pc[p] = "wb_check"
    /\ task' = [task EXCEPT
                  ![p].existed = temporary_blob_path(task[p].upload) \in DOMAIN tempFs]
    /\ pc' = [pc EXCEPT ![p] = "wb_open"]
    /\ UNCHANGED <<uploads, mapLock, sessLock, next_uuid, tempFs, regFs, now,
                   ticks, budget, blocking, pruneDue, resp, nreq, sent, clean, lastActivity, cancelled>>

\* Upload::write_blob: File::open or File::create, then seek(End(0)).
write_blob_open(p) ==
    LET path == temporary_blob_path(task[p].upload)
        f == write_blob_file(task[p].existed)
        old == IF path \in DOMAIN tempFs THEN tempFs[path] ELSE <<>>
    IN
    /\ pc[p] = "wb_open"
    /\ IF ~f.create /\ path \notin DOMAIN tempFs
       THEN \* File::open of a file removed meanwhile: io::ErrorKind::NotFound
            /\ Return(p, ErrResp(FromIoError))
            /\ UNCHANGED tempFs
       ELSE /\ tempFs' = IF f.create THEN Put(tempFs, path, <<>>) ELSE tempFs
            /\ task' = [task EXCEPT
                          ![p].mode = f.mode,
                          ![p].target = [root |-> "temp", path |-> path],
                          ![p].pos = IF f.create THEN 0 ELSE Len(old),
                          ![p].before = old]
            /\ pc' = [pc EXCEPT ![p] = "wb_write"]
            /\ UNCHANGED <<resp, sessLock, clean, sent>>
    /\ UNCHANGED <<uploads, mapLock, next_uuid, regFs, now, ticks, budget, blocking, pruneDue,
                   nreq, lastActivity, cancelled>>

\* Upload::write_blob: one turn of the loop over the body stream.  A chunk
\* fails the request when the stream item is an error, or when an earlier
\* write on this handle failed (tokio::fs::File reports the failure of a
\* write on the next write).  A write on a read-only handle fails in the
\* background; a write on a write-only handle lands at the handle's offset.
write_blob_chunk(p) ==
    LET t == task[p]
        chunk == Head(t.stream)
    IN
    /\ pc[p] = "wb_write"
    /\ t.stream # <<>>
    /\ IF chunk = StreamErr \/ (chunk # <<>> /\ t.pendingErr)
       THEN /\ Return(p, ErrResp(FromIoError))
            /\ UNCHANGED <<tempFs, regFs>>
       ELSE /\ UNCHANGED <<pc, resp, sessLock, clean, sent>>
            /\ IF chunk = <<>>
               THEN /\ task' = [task EXCEPT ![p].stream = Tail(t.stream)]
                    /\ UNCHANGED <<tempFs, regFs>>
               ELSE IF t.mode = "ro"
               THEN /\ task' = [task EXCEPT ![p].stream = Tail(t.stream),
                                            ![p].pendingErr = TRUE]
                    /\ UNCHANGED <<tempFs, regFs>>
               ELSE /\ task' = [task EXCEPT
                                  ![p].stream = Tail(t.stream),
                                  ![p].pos = t.pos + Len(chunk),
                                  ![p].olen = IF t.target.root = "unlinked"
                                              THEN Len(WriteAt(Prefix(<<>>, t.olen), t.pos, chunk))
                                              ELSE t.olen]
                    /\ tempFs' = IF t.target.root = "temp"
                                 THEN [tempFs EXCEPT ![t.target.path] = WriteAt(@, t.pos, chunk)]
                                 ELSE tempFs
                    /\ regFs' = IF t.target.root = "reg"
                                THEN [regFs EXCEPT ![t.target.path] = WriteAt(@, t.pos, chunk)]
                                ELSE regFs
    /\ UNCHANGED <<uploads, mapLock, next_uuid, now, ticks, budget, blocking, pruneDue, nreq,
                   lastActivity, cancelled>>

\* Upload::write_blob after the loop: seek(End(0)) waits for the write in
\* flight, drops its error, and returns the file's length.  Then
\* process_blob_chunk_upload answers 202 with Range 0-<length>, and
\* finalize_blob_upload goes on to finalize_upload.
write_blob_end(p) ==
    LET t == task[p]
        position == IF t.target.root = "unlinked" THEN t.olen ELSE Len(FileOf(t.target))
    IN
    /\ pc[p] = "wb_write"
    /\ t.stream = <<>>
    /\ IF t.kind = "append"
       THEN /\ Return(p, OkResp(202, position, t.upload))
            /\ lastActivity' = [lastActivity EXCEPT ![t.upload] = now]
       ELSE /\ pc' = [pc EXCEPT ![p] = "fin_rename"]
            /\ UNCHANGED <<task, resp, sessLock, clean, sent, lastActivity>>
    /\ UNCHANGED <<uploads, mapLock, next_uuid, tempFs, regFs, now, ticks, budget, blocking,
                   pruneDue, nreq, cancelled>>

\* Upload::finalize_upload: rename the temporary file to blob_path(registry
\* root, container reference, hash).  Open handles follow the file.
finalize_upload(p) ==
    LET t == task[p]
        src == temporary_blob_path(t.upload)
        dst == blob_path(t.upload_ref, SplitOnce(t.digest))
        oldLen == IF dst \in DOMAIN regFs THEN Len(regFs[dst]) ELSE 0
    IN
    /\ pc[p] = "fin_rename"
    /\ IF src \notin DOMAIN tempFs
       THEN /\ Return(p, ErrResp(FromIoError))
            /\ UNCHANGED <<tempFs, regFs>>
       ELSE /\ regFs' = Put(regFs, dst, tempFs[src])
            /\ tempFs' = Del(tempFs, src)
            /\ task' = [q \in Procs |->
                          Retarget(Retarget(task[q], "reg", dst, Unlinked, oldLen),
                                   "temp", src, [root |-> "reg", path |-> dst], 0)]
            /\ pc' = [pc EXCEPT ![p] = "del"]
            /\ UNCHANGED <<resp, sessLock, clean, sent>>
    /\ UNCHANGED <<uploads, mapLock, next_uuid, now, ticks, budget, blocking, pruneDue, nreq,
                   lastActivity, cancelled>>

\* Upload::cleanup_upload: self.temporary_file_path.is_file().  Without a
\* file there is nothing to remove and the handler goes on.
cleanup_is_file(p) ==
    /\ pc[p] = "cleanup"
    /\ pc' = [pc EXCEPT ![p] =
                IF temporary_blob_path(task[p].upload) \in DOMAIN tempFs
                THEN "cleanup_rm" ELSE "del"]
    /\ UNCHANGED <<uploads, mapLock, sessLock, next_uuid, tempFs, regFs, now, ticks, budget,
                   blocking, pruneDue, task, resp, nreq, sent, clean, lastActivity, cancelled>>

\* Upload::cleanup_upload: tokio::fs::remove_file(..).await?  The removal of
\* a file that was moved or removed meanwhile fails (NotFound), and the
\* handler returns the error.
cleanup_upload(p) ==
    LET path == temporary_blob_path(task[p].upload)
        len == IF path \in DOMAIN tempFs THEN Len(tempFs[path]) ELSE 0
    IN
    /\ pc[p] = "cleanup_rm"
    /\ IF path \notin DOMAIN tempFs
       THEN /\ Return(p, ErrResp(FromIoError))
            /\ UNCHANGED tempFs
       ELSE /\ tempFs' = Del(tempFs, path)
            /\ task' = [q \in Procs |-> Retarget(task[q], "temp", path, Unlinked, len)]
            /\ pc' = [pc EXCEPT ![p] = "del"]
            /\ UNCHANGED <<resp, sessLock, clean, sent>>
    /\ UNCHANGED <<uploads, mapLock, next_uuid, regFs, now, ticks, budget, blocking,
                   pruneDue, nreq, lastActivity, cancelled>>

\* ------------------------------------------------------------ environment

\* Time passes: one sleep of the cleanup task elapses.
Tick ==
    /\ ticks < MaxTicks
    /\ ticks' = ticks + 1
    /\ now' = now + UPLOAD_PRUNE_INTERVAL
    /\ pruneDue' = TRUE
    /\ UNCHANGED <<uploads, mapLock, sessLock, next_uuid, tempFs, regFs, pc,
                   task, resp, nreq, budget, blocking, sent, clean, lastActivity,
                   cancelled>>

\* The uploads a sweep at time t removes.
Stale(map, t) ==
    {u \in DOMAIN map : t - map[u].last_interacted_with > UPLOAD_PRUNE_AGE}

\* UploadsStore::prune, called by the cleanup task of main after each sleep:
\* removes the uploads idle for longer than UPLOAD_PRUNE_AGE and their
\* temporary files.
prune ==
    LET stale == Stale(uploads, now)
        gone == {temporary_blob_path(u) : u \in stale}
    IN
    /\ pruneDue
    /\ CanWrite(mapLock)
    /\ pruneDue' = FALSE
    /\ uploads' = [u \in DOMAIN uploads \ stale |-> uploads[u]]
    /\ tempFs' = [path \in DOMAIN tempFs \ gone |-> tempFs[path]]
    /\ task' = [q \in Procs |->
                  IF task[q].target.root = "temp" /\ task[q].target.path \in gone
                  THEN [task[q] EXCEPT !.target = Unlinked,
                                       !.olen = Len(tempFs[task[q].target.path]),
                                       !.solo = FALSE]
                  ELSE IF InFlight(q) /\ ParseUuid(task[q].raw_uuid) \in stale
                  THEN [task[q] EXCEPT !.solo = FALSE]
                  ELSE task[q]]
    /\ UNCHANGED <<mapLock, sessLock, next_uuid, regFs, now, ticks, budget, blocking, pc, resp,
                   nreq, sent, clean, lastActivity, cancelled>>

\* --------------------------------------------------------------- manifests

\* Manifest request bodies.
ManifestBodies == { << <<1>> >>, << <<1>>, <<2>> >>, << <<1>>, StreamErr >> }

\* Manifest references a client may name: a tag, digests, an invalid name.
ManifestRefs ==
    { <<"tag", 1>>, <<"sha256:", Sha256(<<1>>)>>, <<"sha256:", Sha256(<<1, 2>>)>>,
      <<"..", 0>> }

ContentTypes == {"application/json"}

\* Manifest.docker_hash = None
NoHash == <<"none", 0>>

\* Manifest::new: the reference is the digest when it starts with "sha256:".
Manifest_new(manifest_reference) ==
    IF manifest_reference[1] = "sha256:" THEN manifest_reference ELSE NoHash

\* save_manifest: registry_temp_root.join(Uuid::new_v4().to_string())
manifest_temporary_file_path(u) == <<UuidToString(u)>>

\* docker_hash.replace("sha256:", "")
StripSha256(docker_hash) == <<"hex", docker_hash[2]>>

\* format!("sha256:{}", hash): the prefix before a bare hex string, or
\* before a string that already starts with a prefix.
WithSha256(hash) ==
    IF hash[1] = "hex" THEN <<"sha256:", hash[2]>> ELSE <<"sha256:">> \o hash

ContentTypeCode(ct) == IF ct = "application/json" THEN 1 ELSE 2

ContentTypeName(c) == IF c = 1 THEN "application/json" ELSE "application/octet-stream"

\* serde_json::to_string(&ManifestMetadata { hash, content_type })
to_string(meta) == <<123, meta.hash[2], ContentTypeCode(meta.content_type), 125>>

\* serde_json::from_str::<ManifestMetadata> accepts the text.
from_str_ok(text) == Len(text) = 4 /\ text[1] = 123 /\ text[4] = 125

\* serde_json::from_str::<ManifestMetadata>
from_str(text) ==
    [hash |-> <<"hex", text[2]>>, content_type |-> ContentTypeName(text[3])]

\* The handler panicked (Result::unwrap on Err): the connection is closed
\* without a response.
Panicked ==
    [status |-> 0, code |-> "PANIC", range |-> -1, uuid |-> NoUpload,
     digest |-> <<>>, content_type |-> "", content |-> <<>>, length |-> -1]

\* upload_manifest's answer: 201 with Docker-Content-Digest.
Created(digest) ==
    [status |-> 201, code |-> "", range |-> -1, uuid |-> NoUpload,
     digest |-> digest, content_type |-> "", content |-> <<>>, length |-> -1]

\* The variables no manifest handler touches.
storeVars ==
    <<uploads, mapLock, now, ticks, budget, pruneDue, lastActivity, cancelled>>

\* The write of the handle `owner` that tokio's blocking pool has not run yet.
Pending(owner) == {op \in blocking : op.owner = owner}

\* The file at (root, path) after the blocking pool ran op on it.
Landed(fs, op) ==
    IF op.path \in DOMAIN fs
    THEN [fs EXCEPT ![op.path] = WriteAt(@, op.pos, op.chunk)]
    ELSE fs

\* PUT /v2/:container_ref/manifests/:manifest_ref
upload_manifest(p) ==
    /\ Free(p)
    /\ \E ref \in ContainerRefs, mref \in ManifestRefs \ {<<"sha256:", Sha256(<<1, 2>>)>>},
       body \in ManifestBodies, ct \in ContentTypes :
        /\ (ref = ".." \/ mref[1] = "..") => body = << <<1>> >>
        /\ ref = ".." => mref = <<"tag", 1>>
        /\ Arrive(p, [IdleTask EXCEPT
                        !.kind = "put_manifest", !.container_ref = ref,
                        !.manifest_ref = mref, !.body = body, !.stream = body,
                        !.content_type = ct, !.docker_hash = Manifest_new(mref),
                        !.seq = nreq + 1,
                        !.solo = ManifestOverlap(p) = {}])

\* GET /v2/:container_ref/manifests/:manifest_ref
fetch_manifest(p) ==
    /\ Free(p)
    /\ \E mref \in ManifestRefs :
        Arrive(p, [IdleTask EXCEPT
                     !.kind = "get_manifest", !.container_ref = "a",
                     !.manifest_ref = mref, !.seq = nreq + 1])

\* Manifest::save_manifest: File::create of the temporary file.
save_manifest_create(p) ==
    LET path == manifest_temporary_file_path(next_uuid) IN
    /\ pc[p] = "m_create"
    /\ tempFs' = Put(tempFs, path, <<>>)
    /\ next_uuid' = next_uuid + 1
    /\ task' = [task EXCEPT ![p].target = [root |-> "temp", path |-> path],
                            ![p].pos = 0]
    /\ pc' = [pc EXCEPT ![p] = "m_write"]
    /\ UNCHANGED <<storeVars, sessLock, regFs, resp, nreq, sent, clean, blocking>>

\* Manifest::save_manifest: one turn of the loop over the body.  write_all
\* waits for the handle's previous write, hands the chunk to the blocking
\* pool and returns.
save_manifest_chunk(p) ==
    LET t == task[p]
        chunk == Head(t.stream)
    IN
    /\ pc[p] = "m_write"
    /\ t.stream # <<>>
    /\ Pending(<<t.seq, "manifest">>) = {}
    /\ IF chunk = StreamErr
       THEN /\ Return(p, ErrResp(FromIoError))
            /\ UNCHANGED blocking
       ELSE /\ blocking' = blocking \cup
                  {[owner |-> <<t.seq, "manifest">>, root |-> t.target.root,
                    path |-> t.target.path, pos |-> t.pos, chunk |-> chunk]}
            /\ task' = [task EXCEPT ![p].stream = Tail(t.stream),
                                    ![p].pos = t.pos + Len(chunk)]
            /\ UNCHANGED <<pc, resp, sessLock, clean, sent>>
    /\ UNCHANGED <<storeVars, next_uuid, tempFs, regFs, nreq>>

\* Manifest::save_manifest after the loop: without a flush, and when the
\* reference is not a digest, file256sum_async reads the temporary file as
\* it is on disk and the digest becomes "sha256:" followed by its hash.
save_manifest_hash(p) ==
    LET t == task[p] IN
    /\ pc[p] = "m_write"
    /\ t.stream = <<>>
    /\ task' = [task EXCEPT ![p].docker_hash =
                  IF t.docker_hash = NoHash
                  THEN WithSha256(<<"hex", Sha256(tempFs[t.target.path])>>)
                  ELSE t.docker_hash]
    /\ pc' = [pc EXCEPT ![p] = "m_rename"]
    /\ UNCHANGED <<storeVars, sessLock, next_uuid, tempFs, regFs, resp, nreq,
                   sent, clean, blocking>>

\* Manifest::save_manifest: rename of the temporary file to the digest's
\* manifest path.  The handle and its pending write follow the file.
save_manifest_rename(p) ==
    LET t == task[p]
        dst == manifest_path(t.container_ref, t.docker_hash)
        moved == [root |-> "reg", path |-> dst]
    IN
    /\ pc[p] = "m_rename"
    /\ regFs' = Put(regFs, dst, tempFs[t.target.path])
    /\ tempFs' = Del(tempFs, t.target.path)
    /\ blocking' = {IF op.root = "temp" /\ op.path = t.target.path
                    THEN [op EXCEPT !.root = "reg", !.path = dst]
                    ELSE IF op.root = "reg" /\ op.path = dst
                    THEN [op EXCEPT !.root = "unlinked"]
                    ELSE op : op \in blocking}
    /\ task' = [task EXCEPT ![p].target = moved]
    /\ pc' = [pc EXCEPT ![p] = IF t.manifest_ref[1] = "sha256:"
                               THEN "mm_create" ELSE "m_copy"]
    /\ UNCHANGED <<storeVars, sessLock, next_uuid, resp, nreq, sent, clean>>

\* tokio::fs::copy, first half: the destination is created or truncated.
CopyOpen(p, dst, then) ==
    /\ regFs' = Put(regFs, dst, <<>>)
    /\ pc' = [pc EXCEPT ![p] = then]
    /\ UNCHANGED <<storeVars, sessLock, next_uuid, tempFs, task, resp, nreq,
                   sent, clean, blocking>>

\* tokio::fs::copy, second half: the bytes the source holds now are written
\* to the destination.
CopyFill(src, dst) == regFs' = Put(regFs, dst, regFs[src])

\* Manifest::save_manifest: copy of the digest's manifest to the tag's.
save_manifest_copy_open(p) ==
    /\ pc[p] = "m_copy"
    /\ CopyOpen(p, manifest_path(task[p].container_ref, task[p].manifest_ref),
                "m_copy_fill")

save_manifest_copy(p) ==
    /\ pc[p] = "m_copy_fill"
    /\ CopyFill(manifest_path(task[p].container_ref, task[p].docker_hash),
                manifest_path(task[p].container_ref, task[p].manifest_ref))
    /\ pc' = [pc EXCEPT ![p] = "mm_create"]
    /\ UNCHANGED <<storeVars, sessLock, next_uuid, tempFs, task, resp, nreq,
                   sent, clean, blocking>>

\* Manifest::save_manifest_metadata: File::create of the digest's metadata
\* file and write_all of the JSON text, which returns once the text is
\* handed to the blocking pool.  For a digest reference upload_manifest
\* answers here.
save_manifest_metadata(p) ==
    LET t == task[p]
        path == manifest_meta(t.container_ref, t.docker_hash)
        text == to_string([hash |-> StripSha256(t.docker_hash),
                           content_type |-> t.content_type])
    IN
    /\ pc[p] = "mm_create"
    /\ regFs' = Put(regFs, path, <<>>)
    /\ blocking' = blocking \cup
          {[owner |-> <<t.seq, "meta">>, root |-> "reg", path |-> path,
            pos |-> 0, chunk |-> text]}
    /\ IF t.manifest_ref[1] = "sha256:"
       THEN Return(p, Created(WithSha256(t.docker_hash)))
       ELSE /\ pc' = [pc EXCEPT ![p] = "mm_copy"]
            /\ UNCHANGED <<task, resp, sessLock, clean, sent>>
    /\ UNCHANGED <<storeVars, next_uuid, tempFs, nreq>>

\* Manifest::save_manifest_metadata: copy of the digest's metadata to the
\* tag's.
save_manifest_metadata_copy_open(p) ==
    /\ pc[p] = "mm_copy"
    /\ CopyOpen(p, manifest_meta(task[p].container_ref, task[p].manifest_ref),
                "mm_copy_fill")

\* The end of the copy, and upload_manifest's answer.
save_manifest_metadata_copy(p) ==
    /\ pc[p] = "mm_copy_fill"
    /\ CopyFill(manifest_meta(task[p].container_ref, task[p].docker_hash),
                manifest_meta(task[p].container_ref, task[p].manifest_ref))
    /\ Return(p, Created(WithSha256(task[p].docker_hash)))
    /\ UNCHANGED <<storeVars, next_uuid, tempFs, nreq, blocking>>

\* A write handed to the blocking pool runs.
blocking_write ==
    \E op \in blocking :
        /\ blocking' = blocking \ {op}
        /\ tempFs' = IF op.root = "temp" THEN Landed(tempFs, op) ELSE tempFs
        /\ regFs' = IF op.root = "reg" THEN Landed(regFs, op) ELSE regFs
        /\ UNCHANGED <<storeVars, sessLock, next_uuid, pc, task, resp, nreq,
                       sent, clean>>

\* fetch_manifest from the read of the metadata on: 500 when the metadata
\* file is missing, a panic when it does not parse, else 200 with the
\* metadata's digest and content type and the manifest file's bytes.
ManifestResponse(container_ref, manifest_ref, size) ==
    LET meta_path == manifest_meta(container_ref, manifest_ref)
        path == manifest_path(container_ref, manifest_ref)
    IN
    IF meta_path \notin DOMAIN regFs THEN ErrResp(FromIoError)
    ELSE IF ~from_str_ok(regFs[meta_path]) THEN Panicked
    ELSE [status |-> 200, code |-> "", range |-> -1, uuid |-> NoUpload,
          digest |-> WithSha256(from_str(regFs[meta_path]).hash),
          content_type |-> from_str(regFs[meta_path]).content_type,
          content |-> regFs[path], length |-> size]

\* fetch_manifest run without interruption in the current state.
FetchNow(container_ref, manifest_ref) ==
    IF manifest_path(container_ref, manifest_ref) \notin DOMAIN regFs
    THEN ErrResp("ManifestNotFound")
    ELSE ManifestResponse(container_ref, manifest_ref,
                          Len(regFs[manifest_path(container_ref, manifest_ref)]))

\* fetch_manifest: File::open of the manifest and its size.
fetch_manifest_open(p) ==
    LET path == manifest_path(task[p].container_ref, task[p].manifest_ref) IN
    /\ pc[p] = "f_open"
    /\ IF path \notin DOMAIN regFs
       THEN Return(p, ErrResp("ManifestNotFound"))
       ELSE /\ task' = [task EXCEPT ![p].olen = Len(regFs[path])]
            /\ pc' = [pc EXCEPT ![p] = "f_read"]
            /\ UNCHANGED <<resp, sessLock, clean, sent>>
    /\ UNCHANGED <<storeVars, next_uuid, tempFs, regFs, nreq, blocking>>

\* fetch_manifest: read_to_string of the metadata, from_str, the answer.
fetch_manifest_read(p) ==
    /\ pc[p] = "f_read"
    /\ Return(p, ManifestResponse(task[p].container_ref, task[p].manifest_ref,
                                  task[p].olen))
    /\ UNCHANGED <<storeVars, next_uuid, tempFs, regFs, nreq, blocking>>

\* ------------------------------------------------- upstream authentication

VARIABLES
    proxyFs,        \* files under proxy_storage: path -> bytes
    docker_clients_store,   \* DockerClientsStore: key -> Arc<DockerClient>
    clientsLock,    \* the RwLock around DockerClientsStore's map
    ppc,            \* per task, the position in its proxy handler
    ptask,          \* per task, the proxy handler's arguments and locals
    presp,          \* per task, the response of the proxy handler
    writes,         \* cache-file writes handed to the blocking pool, not run yet
    proxyLog,       \* history: what has happened to each cache path
    auth_strategy,  \* an AuthenticationStrategy on its own
    utc_now,        \* Utc::now(), in units of 1/Second
    outcome,        \* history: the last execute_authentication of auth_strategy
    resolved        \* the last call of a RegistryPathsHelper function

\* Option<&str>: None is the empty sequence, Some(s) is <<s>>.
None == <<>>

Some(s) == <<s>>

\* The credentials a caller of DockerClient::authenticate may supply.
Usernames == {None, Some("user")}

Passwords == {None, Some("secret")}

\* DockerClient.authentication: None, or Some(AuthenticationType).
NoAuthentication ==
    [kind |-> "None", username |-> None, password |-> None, token |-> "",
     scope |-> "", expires_at |-> 0]

Anonymous == [NoAuthentication EXCEPT !.kind = "Anonymous"]

Basic(username, password) ==
    [NoAuthentication EXCEPT !.kind = "Basic", !.username = username,
                             !.password = password]

Token(scope, token, expires_at) ==
    [NoAuthentication EXCEPT !.kind = "Token", !.scope = scope, !.token = token,
                             !.expires_at = expires_at]

\* A constructor whose client is already anonymous.
DockerClient_new_anonymous(registry, container) ==
    [authentication |-> Anonymous, registry |-> registry,
     container |-> container]

\* DockerClient::new
DockerClient_new(registry, container) ==
    [authentication |-> NoAuthentication, registry |-> registry,
     container |-> container]

\* WWW-Authenticate header values an upstream may send: the method word as
\* written (an Option) and whether a realm parameter is present.
Challenges ==
    { [method |-> Some("Basic"), realm |-> TRUE],
      [method |-> Some("BASIC"), realm |-> TRUE],
      [method |-> Some("Bearer"), realm |-> TRUE],
      [method |-> Some("Bearer"), realm |-> FALSE],
      [method |-> Some("Digest"), realm |-> TRUE],
      [method |-> None, realm |-> TRUE] }

NoChallenge == [method |-> None, realm |-> FALSE]

\* str::to_lowercase of a method word.
to_lowercase(word) ==
    CASE word \in {"Basic", "BASIC", "basic"} -> "basic"
      [] word \in {"Bearer", "BEARER", "bearer"} -> "bearer"
      [] word \in {"Digest", "DIGEST", "digest"} -> "digest"
      [] OTHER -> word

\* AuthenticationChallenge::from_www_authenticate: the scheme, or the error.
from_www_authenticate(header_value) ==
    IF header_value.method = None THEN [ok |-> FALSE, scheme |-> "MissingMethod"]
    ELSE IF to_lowercase(header_value.method[1]) = "basic"
    THEN [ok |-> TRUE, scheme |-> "Basic"]
    ELSE IF to_lowercase(header_value.method[1]) = "bearer"
    THEN [ok |-> TRUE, scheme |-> "Bearer"]
    ELSE [ok |-> FALSE, scheme |-> "UnsupportedMethod"]

\* How an upstream may answer the probe GET /v2/: a status with or without
\* a WWW-Authenticate header, or no answer (status 0: transport failure).
ProbeStatuses == {0, 200, 401, 404, 500}

\* How the token endpoint may answer: a status and, with 200, a body that
\* does not parse or the token it carries.
TokenBodies == {"not json", "", "unauthenticated", "abc"}

TokenStatuses == {0, 200, 401, 500}

\* expires_in of a token response: Option<u64>.
ExpiresIn == {None, Some(1)}

\* How an upstream may answer the verification GET /v2/.
VerifyStatuses == {0, 200, 401, 500}

\* Result<(), DockerClientError> of authenticate; a panic unwinds instead.
NoResult == [ok |-> "none", err |-> "", code |-> 0]

Ok == [ok |-> "Ok", err |-> "", code |-> 0]

Err(err, code) == [ok |-> "Err", err |-> err, code |-> code]

Panic == [ok |-> "Panic", err |-> "", code |-> 0]

\* An upstream request as the upstream sees it: what is asked and which
\* Authorization header it carries.
Request(kind, auth) == [kind |-> kind, auth |-> auth]

NoHead == [hash |-> <<"none", 0>>, content_type |-> "", content_length |-> 0]

NoPResp ==
    [status |-> 0, code |-> "", cache |-> "", length |-> -1, digest |-> <<>>,
     content_type |-> "", body |-> <<>>, state |-> "none"]

\* No response of the token endpoint read.
NoTokenResponse ==
    [status |-> -1, token |-> "", issued_at |-> None, expires_in |-> None]

IdlePTask ==
    [kind |-> "none", container_ref |-> "", reference |-> <<"tag", 0>>,
     seq |-> 0, client |-> DockerClient_new("", ""), username |-> None,
     password |-> None, probe |-> -1, scheme |-> "", verification |-> -1,
     result |-> NoResult,
     requests |-> <<>>, lookups |-> 0, inner_stream |-> <<>>, pos |-> 0,
     failed |-> FALSE, head |-> NoHead, self_copies |-> 0, solo |-> TRUE,
     warm |-> FALSE, path |-> <<>>, created |-> FALSE, answer |-> -1,
     get_answer |-> -1, token_response |-> NoTokenResponse,
     after_complete |-> FALSE]

\* No strategy built yet.
NoStrategy ==
    [kind |-> "none", username |-> "", password |-> None, token |-> None,
     created_at |-> 0, expires_in |-> 0, scope |-> <<>>]

\* No path resolved yet.
NoResolved == [fn |-> "none", root |-> <<>>, name |-> <<>>, leaf |-> <<>>,
               path |-> <<>>]

\* The outcome of the last execute_authentication: its result, the
\* response it read and the instant it ran at.
NoOutcome ==
    [result |-> NoResult,
     response |-> NoTokenResponse,
     at |-> 0,
     before |-> NoStrategy]

\* The state of the proxy side after main has built the stores.
InitProxy ==
    /\ proxyFs = <<>>
    /\ docker_clients_store = <<>>
    /\ clientsLock = [writer |-> NoProc, readers |-> {}]
    /\ ppc = [p \in Procs |-> "idle"]
    /\ ptask = [p \in Procs |-> IdlePTask]
    /\ presp = [p \in Procs |-> NoPResp]
    /\ writes = {}
    /\ proxyLog = {}
    /\ auth_strategy = NoStrategy
    /\ utc_now = 0
    /\ outcome = NoOutcome
    /\ resolved = NoResolved

\* The variables of the registry side that no proxy handler touches.
registryState ==
    <<uploads, mapLock, sessLock, next_uuid, tempFs, regFs, now, ticks,
      pruneDue, pc, task, resp, blocking, sent, clean, lastActivity, cancelled>>

\* The variables of the strategy and of the path helper, which are
\* exercised on their own.
strategyVars == <<auth_strategy, utc_now, outcome, resolved>>

proxyVars ==
    <<proxyFs, docker_clients_store, clientsLock, ppc, ptask, presp, writes,
      proxyLog, auth_strategy, utc_now, outcome, resolved>>

\* Task p is the first free task and the behaviour serves another request.
ProxyFree(p) ==
    /\ ppc[p] = "idle"
    /\ \A q \in Procs : q < p => ppc[q] # "idle"
    /\ nreq < budget

\* DockerClient::add_authentication: the Authorization header of a request.
add_authentication(authentication) ==
    CASE authentication.kind = "Basic" -> "basic"
      [] authentication.kind = "Token" -> "bearer"
      [] OTHER -> "none"

\* A verification failure that keeps the tentative state.
AfterFailedCheck_kept(authentication) == authentication

\* authenticate: self.authentication = None after check_authentication
\* returned an error.
AfterFailedCheck(authentication) == NoAuthentication

\* An unexpected status reported without the status.
UnexpectedStatusCode_blank(code) == Err("UnexpectedStatusCode", 0)

\* DockerClientError::UnexpectedStatusCode(status)
UnexpectedStatusCode(code) == Err("UnexpectedStatusCode", code)

\* A Basic challenge without credentials that is let through.
BasicWithoutCredentials_ok == Ok

\* authenticate: the Basic arm taken when registry_username is None.
BasicWithoutCredentials == Err("BadBasicAuthCredentials", 0)

\* A token whose 200 response is a refusal.
TokenRefused_empty(token) == token = ""

\* token.token.is_empty() || token.token == "unauthenticated"
TokenRefused(token) == token = "" \/ token = "unauthenticated"

\* HttpBasicAuthStrategy::execute_authentication: the result, and the
\* strategy's (username, password) after it.
execute_authentication(strategy, username, password) ==
    IF username = None
    THEN [result |-> Err("BadAuthenticationCredentials", 0), strategy |-> strategy]
    ELSE [result |-> Ok,
          strategy |-> [username |-> username[1], password |-> password]]

\* DockerClient::check_authentication on the answer of query_base.
check_authentication(status) ==
    IF status = 0 THEN Err("ReqwestError", 0)
    ELSE IF status = 200 THEN Ok
    ELSE IF status = 401 THEN Err("BadBasicAuthCredentials", 0)
    ELSE UnexpectedStatusCode(status)

\* authenticate returns result and leaves the client with authentication:
\* to its caller, DockerClientsStore::get_client, or to the test driver.
AuthReturn(p, t, authentication, result) ==
    /\ ptask' = [ptask EXCEPT ![p] =
                   [t EXCEPT !.client.authentication = authentication,
                             !.result = result]]
    /\ ppc' = [ppc EXCEPT ![p] = IF t.kind = "authenticate" THEN "idle"
                                 ELSE "gc_insert"]

\* The upstream's answers are kept for inspection, in t, when authenticate
\* is called directly; inside get_client they are gone once they are used.
Recorded(p, t) == IF ptask[p].kind = "authenticate" THEN t ELSE ptask[p]

\* A caller invokes authenticate on its client with credentials of its
\* choice.
authenticate_call(p) ==
    /\ ProxyFree(p)
    /\ \E username \in Usernames, password \in Passwords :
        ptask' = [ptask EXCEPT ![p] =
                    [IdlePTask EXCEPT !.kind = "authenticate",
                                      !.client = IF ptask[p].kind = "authenticate"
                                                 THEN ptask[p].client
                                                 ELSE DockerClient_new("r", "c"),
                                      !.username = username,
                                      !.password = password,
                                      !.seq = nreq + 1]]
    /\ ppc' = [ppc EXCEPT ![p] = "a_start"]
    /\ nreq' = nreq + 1
    /\ UNCHANGED <<registryState, strategyVars, budget, proxyFs, docker_clients_store,
                   clientsLock, presp, writes, proxyLog>>

\* authenticate up to the first await: done when the client already has an
\* authentication, else the unauthenticated probe GET /v2/ is sent.
authenticate_begin(p) ==
    LET t == ptask[p] IN
    /\ ppc[p] = "a_start"
    /\ IF t.client.authentication.kind # "None"
       THEN AuthReturn(p, t, t.client.authentication, Ok)
       ELSE /\ ptask' = [ptask EXCEPT ![p].requests =
                           Append(@, Request("probe", "none"))]
            /\ ppc' = [ppc EXCEPT ![p] = "a_probe"]
    /\ UNCHANGED <<registryState, strategyVars, nreq, budget, proxyFs, docker_clients_store,
                   clientsLock, presp, writes, proxyLog>>

\* authenticate from the probe's answer to the next await.
authenticate_probe(p) ==
    /\ ppc[p] = "a_probe"
    /\ \E status \in ProbeStatuses :
       \E header \in (IF status = 401 THEN Challenges \cup {NoChallenge}
                      ELSE {NoChallenge}) :
        LET challenge == from_www_authenticate(header)
            t == Recorded(p, [ptask[p] EXCEPT
                      !.probe = status,
                      !.scheme = IF status = 401 /\ header # NoChallenge
                                 THEN challenge.scheme ELSE ""])
        IN
        IF status = 0
        THEN AuthReturn(p, t, t.client.authentication, Panic)
        ELSE IF status = 200
        THEN AuthReturn(p, t, Anonymous, Ok)
        ELSE IF status # 401
        THEN AuthReturn(p, t, t.client.authentication, UnexpectedStatusCode(status))
        ELSE IF header = NoChallenge
        THEN AuthReturn(p, t, t.client.authentication, Panic)
        ELSE IF ~challenge.ok
        THEN AuthReturn(p, t, t.client.authentication,
                        Err("WwwAuthenticateParseError", 0))
        ELSE IF challenge.scheme = "Basic" /\ t.username # None
        THEN /\ ptask' = [ptask EXCEPT ![p] =
                [t EXCEPT !.client.authentication =
                              Basic(t.username, t.password),
                          !.requests = Append(@,
                              Request("verify", add_authentication(
                                  Basic(t.username, t.password))))]]
             /\ ppc' = [ppc EXCEPT ![p] = "a_verify"]
        ELSE IF challenge.scheme = "Basic"
        THEN AuthReturn(p, t, t.client.authentication, BasicWithoutCredentials)
        ELSE IF ~header.realm
        THEN AuthReturn(p, t, t.client.authentication, Panic)
        ELSE /\ ptask' = [ptask EXCEPT ![p] =
                [t EXCEPT !.requests = Append(@,
                              Request("token", IF t.username # None
                                               THEN "basic" ELSE "none"))]]
             /\ ppc' = [ppc EXCEPT ![p] = "a_token"]
    /\ UNCHANGED <<registryState, strategyVars, nreq, budget, proxyFs, docker_clients_store,
                   clientsLock, presp, writes, proxyLog>>

\* authenticate, Bearer arm, from the token endpoint's answer to the
\* verification request.
authenticate_token(p) ==
    /\ ppc[p] = "a_token"
    /\ \E status \in TokenStatuses :
       \E body \in (IF status = 200 THEN TokenBodies ELSE {""}) :
       \E expires_in \in (IF status = 200 /\ body = "abc" THEN ExpiresIn
                          ELSE {None}) :
       \E issued_at \in (IF status = 200 /\ body = "abc"
                         THEN {None, Some(<<"rfc3339", now - 1>>)}
                         ELSE {None}) :
        LET t == Recorded(p, [ptask[p] EXCEPT !.token_response =
                     [status |-> status, token |-> body,
                      issued_at |-> issued_at, expires_in |-> expires_in]])
        IN
        IF status = 0
        THEN AuthReturn(p, t, t.client.authentication, Err("ReqwestError", 0))
        ELSE IF status # 200
        THEN AuthReturn(p, t, t.client.authentication, UnexpectedStatusCode(status))
        ELSE IF body = "not json"
        THEN AuthReturn(p, t, t.client.authentication, Err("ReqwestError", 0))
        ELSE IF TokenRefused(body)
        THEN AuthReturn(p, t, t.client.authentication,
                        Err("BadBasicAuthCredentials", 0))
        ELSE /\ ptask' = [ptask EXCEPT ![p] =
                [t EXCEPT !.client.authentication =
                              Token(<<"repository:", t.client.container, ":pull">>,
                                    body,
                                    now + (IF expires_in = None THEN 60
                                           ELSE expires_in[1])),
                          !.requests = Append(@,
                              Request("verify", add_authentication(
                                  Token("", body, 0))))]]
             /\ ppc' = [ppc EXCEPT ![p] = "a_verify"]
    /\ UNCHANGED <<registryState, strategyVars, nreq, budget, proxyFs, docker_clients_store,
                   clientsLock, presp, writes, proxyLog>>

\* authenticate from the verification's answer to its return.
authenticate_verify(p) ==
    /\ ppc[p] = "a_verify"
    /\ \E status \in VerifyStatuses :
        LET t == Recorded(p, [ptask[p] EXCEPT !.verification = status]) IN
        IF check_authentication(status) = Ok
        THEN AuthReturn(p, t, t.client.authentication, Ok)
        ELSE AuthReturn(p, t, AfterFailedCheck(t.client.authentication),
                        check_authentication(status))
    /\ UNCHANGED <<registryState, strategyVars, nreq, budget, proxyFs, docker_clients_store,
                   clientsLock, presp, writes, proxyLog>>

\* ------------------------------------------------ authentication strategies

\* Units of the wall clock in one second: instants are counted in half
\* seconds, DateTime::timestamp() keeps the whole seconds.
Second == 2

timestamp(instant) == instant \div Second

\* HttpBasicAuthStrategy::new
HttpBasicAuthStrategy_new(username, password) ==
    [NoStrategy EXCEPT !.kind = "Basic", !.username = username,
                       !.password = password]

\* BearerTokenAuthStrategy::new at the instant `at`
BearerTokenAuthStrategy_new(container_repository, at) ==
    [NoStrategy EXCEPT !.kind = "Bearer", !.created_at = at,
                       !.scope = <<"repository:", container_repository, ":pull">>]

\* AnonymousAuthStrategy
AnonymousAuthStrategy == [NoStrategy EXCEPT !.kind = "Anonymous"]

\* BearerTokenAuthStrategy::needs_reauthenticating at the instant `at`
BearerNeedsReauthenticating(s, at) ==
    timestamp(at) - timestamp(s.created_at) >= s.expires_in

\* A strategy without a token that ages like a Bearer one.
StaticNeedsReauthenticating_aging(s, at) == BearerNeedsReauthenticating(s, at)

\* HttpBasicAuthStrategy / AnonymousAuthStrategy::needs_reauthenticating
StaticNeedsReauthenticating(s, at) == FALSE

\* AuthenticationStrategy::needs_reauthenticating of the strategy s
needs_reauthenticating(s, at) ==
    IF s.kind = "Bearer" THEN BearerNeedsReauthenticating(s, at)
    ELSE StaticNeedsReauthenticating(s, at)

\* issued_at of a token response received at the instant `at`: absent, the
\* RFC 3339 text of an instant (here one second earlier), or text that
\* is not RFC 3339.
IssuedAt(at) == {None, Some(<<"rfc3339", at - Second>>), Some(<<"text", 0>>)}

\* chrono::DateTime::parse_from_rfc3339(issued) succeeds.
parse_from_rfc3339_ok(issued) == issued[1] = "rfc3339"

\* chrono::DateTime::parse_from_rfc3339(issued).unwrap()
parse_from_rfc3339(issued) == issued[2]

\* The response of the token endpoint as the strategy reads it.
TokenResponses(at) ==
    {[status |-> s, token |-> "", issued_at |-> None, expires_in |-> None] :
        s \in TokenStatuses \ {200}}
    \cup {[status |-> 200, token |-> b, issued_at |-> None, expires_in |-> None] :
            b \in TokenBodies \ {"abc"}}
    \cup {[status |-> 200, token |-> "abc", issued_at |-> i, expires_in |-> e] :
            i \in IssuedAt(at), e \in ExpiresIn}

\* BearerTokenAuthStrategy::execute_authentication on a token response
\* received at the instant `at`: the result and the strategy after it.
BearerExecuteAuthentication(s, response, at) ==
    IF response.status = 0
    THEN [result |-> Err("ReqwestError", 0), strategy |-> s]
    ELSE IF response.status = 401
    THEN [result |-> Err("BadAuthenticationCredentials", 0), strategy |-> s]
    ELSE IF response.status # 200
    THEN [result |-> UnexpectedStatusCode(response.status), strategy |-> s]
    ELSE IF response.token = "not json"
    THEN [result |-> Err("ReqwestError", 0), strategy |-> s]
    ELSE IF TokenRefused(response.token)
    THEN [result |-> Err("BadAuthenticationCredentials", 0), strategy |-> s]
    ELSE IF response.issued_at # None
            /\ ~parse_from_rfc3339_ok(response.issued_at[1])
    THEN [result |-> Panic, strategy |-> s]
    ELSE [result |-> Ok,
          strategy |->
            [s EXCEPT !.created_at = IF response.issued_at = None THEN at
                                     ELSE parse_from_rfc3339(response.issued_at[1]),
                      !.expires_in = IF response.expires_in = None THEN 60
                                     ELSE response.expires_in[1],
                      !.token = Some(response.token)]]

\* A strategy is built: the one the challenge of the upstream selects.
strategy_new ==
    /\ nreq < budget
    /\ \E s \in {HttpBasicAuthStrategy_new("", None),
                 BearerTokenAuthStrategy_new("c", utc_now),
                 AnonymousAuthStrategy} :
        auth_strategy' = s
    /\ outcome' = NoOutcome
    /\ nreq' = nreq + 1
    /\ UNCHANGED <<registryState, budget, proxyFs, docker_clients_store,
                   clientsLock, ppc, ptask, presp, writes, proxyLog, utc_now,
                   resolved>>

\* AuthenticationStrategy::execute_authentication of the strategy, once:
\* with the credentials of the caller and, for Bearer, on the response of
\* the token endpoint.
strategy_execute ==
    /\ auth_strategy.kind # "none"
    /\ outcome.result = NoResult
    /\ \E username \in Usernames, password \in Passwords :
       \E response \in (IF auth_strategy.kind = "Bearer"
                        THEN TokenResponses(utc_now)
                        ELSE {NoTokenResponse}) :
        LET basic == execute_authentication(
                        [username |-> auth_strategy.username,
                         password |-> auth_strategy.password],
                        username, password)
            bearer == BearerExecuteAuthentication(auth_strategy, response, utc_now)
        IN
        /\ auth_strategy.kind \in {"Bearer", "Anonymous"}
              => username = None /\ password = None
        /\ auth_strategy' =
              CASE auth_strategy.kind = "Basic" ->
                     [auth_strategy EXCEPT !.username = basic.strategy.username,
                                           !.password = basic.strategy.password]
                [] auth_strategy.kind = "Bearer" -> bearer.strategy
                [] OTHER -> auth_strategy
        /\ outcome' =
              [result |-> CASE auth_strategy.kind = "Basic" -> basic.result
                            [] auth_strategy.kind = "Bearer" -> bearer.result
                            [] OTHER -> Ok,
               response |-> response,
               at |-> utc_now,
               before |-> auth_strategy]
    /\ UNCHANGED <<registryState, nreq, budget, proxyFs, docker_clients_store,
                   clientsLock, ppc, ptask, presp, writes, proxyLog, utc_now,
                   resolved>>

\* Half a second passes.
strategy_elapse ==
    /\ utc_now < MaxElapsed
    /\ utc_now' = utc_now + 1
    /\ UNCHANGED <<registryState, nreq, budget, proxyFs, docker_clients_store,
                   clientsLock, ppc, ptask, presp, writes, proxyLog,
                   auth_strategy, outcome, resolved>>

\* ------------------------------------------------------------ path helper

\* A path or a path component as the helper receives it: the names of its
\* segments with the separator "/" between them, a leading "/" when it is
\* absolute.
is_absolute(component) == Len(component) > 0 /\ component[1] = "/"

\* The segments of a path.
Segments(component) == SelectSeq(component, LAMBDA c : c # "/")

\* Path::join: component is appended to base; an absolute component
\* replaces base.  The result is the sequence of its segments, under "/".
PathBuf_join(base, component) ==
    IF is_absolute(component) THEN Segments(component)
    ELSE Segments(base) \o Segments(component)

\* RegistryPathsHelper::blob_path with its storage root.
RegistryPathsHelper_blob_path(registry_path, container_ref, hash) ==
    PathBuf_join(PathBuf_join(PathBuf_join(PathBuf_join(
        registry_path, container_ref), <<"_repository">>), <<"blobs">>), hash)

\* RegistryPathsHelper::manifest_path with its storage root.
RegistryPathsHelper_manifest_path(registry_path, container_ref, manifest_ref) ==
    PathBuf_join(PathBuf_join(PathBuf_join(PathBuf_join(
        registry_path, container_ref), <<"_repository">>), <<"manifests">>),
        manifest_ref)

\* RegistryPathsHelper::manifest_meta with its storage root.
RegistryPathsHelper_manifest_meta(registry_path, container_ref, manifest_ref) ==
    PathBuf_join(PathBuf_join(PathBuf_join(PathBuf_join(
        registry_path, container_ref), <<"_repository">>), <<"meta">>),
        manifest_ref)

\* RegistryPathsHelper::temporary_blob_path with its temporary root; the
\* rendering of a Uuid is one relative segment, which join appends.
RegistryPathsHelper_temporary_blob_path(temp_path, upload_id) ==
    PathBuf_join(temp_path, <<"blobs">>) \o <<UuidToString(upload_id)>>

\* Storage roots of the configuration.
StorageRoots == {<<"/", "registry">>, <<"/", "proxy">>, <<"/", "tmp">>}

\* Repository names a request may carry once percent-decoded: one segment,
\* several, and one that starts with a separator.
RepositoryNames == {<<"r">>, <<"r", "/", "c">>, <<"/", "etc">>, <<"a", "/", "b", "/", "c">>}

\* Digests, hashes and references a request may carry.
PathLeaves == {<<"v1">>, <<"sha256:ab">>, <<"ab">>, <<"/", "v1">>}

\* A handler resolves a path with one of the helper's functions.
resolve_path ==
    \/ \E fn \in {"blob_path", "manifest_path", "manifest_meta"},
          root \in StorageRoots, name \in RepositoryNames, leaf \in PathLeaves :
        resolved' =
          [fn |-> fn, root |-> root, name |-> name, leaf |-> leaf,
           path |-> CASE fn = "blob_path" ->
                           RegistryPathsHelper_blob_path(root, name, leaf)
                      [] fn = "manifest_path" ->
                           RegistryPathsHelper_manifest_path(root, name, leaf)
                      [] OTHER ->
                           RegistryPathsHelper_manifest_meta(root, name, leaf)]
    \/ \E root \in StorageRoots, upload_id \in 1..MaxUploads :
        resolved' =
          [fn |-> "temporary_blob_path", root |-> root, name |-> <<>>,
           leaf |-> <<UuidToString(upload_id)>>,
           path |-> RegistryPathsHelper_temporary_blob_path(root, upload_id)]

\* ------------------------------------------------------------- client cache

\* Keys of the client cache a proxy URL may carry: one that names a
\* registry and a container, one without a registry part, an invalid one.
ProxyKeys == {"r/c", "c", ".."}

\* split_registry_and_container: Some(<<registry, container>>) when the
\* key matches REGISTRY_CONTAINER_SEPARATION_REGEX, None when the capture
\* is unwrapped on no match.
split_registry_and_container(registry_container) ==
    IF registry_container = "r/c" THEN Some(<<"r", "c">>)
    ELSE IF registry_container = "r/d" THEN Some(<<"r", "d">>)
    ELSE None

\* Keys the callers of get_client ask for: two containers of one registry.
ClientKeys == {"r/c", "r/d"}

\* A client whose authentication always asks for revalidation.
authentication_needs_revalidation_always(client) == TRUE

\* A ? that lets every result of authenticate through.
authenticate_ok_always(result) == TRUE

\* client.authenticate(None, None).await? goes on to the insert.
authenticate_ok(result) == result = Ok

\* An insert that keeps the entry the map already has.
ClientsInsert_or_keep(map, key, client) ==
    IF key \in DOMAIN map THEN map ELSE Put(map, key, client)

\* map_lock.insert(key, client): the entry of key is replaced.
ClientsInsert(map, key, client) == Put(map, key, client)

\* DockerClient::authentication_needs_revalidation: only a bearer token
\* becomes stale, once now reaches the end of its lifetime.
authentication_needs_revalidation(client) ==
    client.authentication.kind = "Token" /\ now >= client.authentication.expires_at

\* impl From<DockerClientError> for RegistryHttpError
FromDockerClientError == "RegistryInternalError"

\* The response of a proxy handler that returns Err(err).
ProxyErr(err) ==
    [NoPResp EXCEPT !.status = IntoResponse(err).status,
                    !.code = IntoResponse(err).code, !.state = "done"]

\* The proxy handler panicked: the connection is closed without a response.
ProxyPanicked == [NoPResp EXCEPT !.code = "PANIC", !.state = "done"]

\* Ok(StatusCode::NOT_FOUND.into_response()) on UnexpectedStatusCode(404)
UpstreamNotFound == [NoPResp EXCEPT !.status = 404, !.state = "done"]

\* The proxy handler of task p returns r with final locals t; its file
\* handle and its guards are dropped.
ProxyReturn(p, t, r) ==
    /\ ppc' = [ppc EXCEPT ![p] = "idle"]
    /\ presp' = [presp EXCEPT ![p] = r]
    /\ ptask' = [ptask EXCEPT ![p] = t]

\* The requests in flight on the cache file at path, other than task p's.
ProxyOverlap(p, path) ==
    {q \in Procs \ {p} : ppc[q] # "idle" /\ ptask[q].path = path}

\* What a caller of get_client keeps of the call t once it has returned:
\* the result, the client of an Ok and the upstream requests that were
\* sent; the locals of get_client are gone, the client of a failed
\* authenticate among them.
GetClientReturned(t) ==
    IF t.kind = "get_client"
    THEN [IdlePTask EXCEPT !.kind = t.kind, !.container_ref = t.container_ref,
                           !.seq = t.seq,
                           !.client = IF t.result = Ok THEN t.client ELSE @,
                           !.result = t.result, !.requests = t.requests,
                           !.lookups = t.lookups]
    ELSE t

\* get_client returned client to the handler of task p, which sends its
\* first upstream request with the client's credentials.
ClientReady(p, t, client) ==
    IF t.kind = "get_client"
    THEN /\ ptask' = [ptask EXCEPT ![p] =
                        [GetClientReturned(t) EXCEPT !.client = client,
                                                     !.result = Ok]]
         /\ ppc' = [ppc EXCEPT ![p] = "idle"]
    ELSE
    /\ ptask' = [ptask EXCEPT ![p] =
        [t EXCEPT !.client = client,
                  !.requests = Append(@,
                      Request(IF t.kind = "proxy_blob" THEN "blob"
                              ELSE "manifest_head",
                              add_authentication(client.authentication)))]]
    /\ ppc' = [ppc EXCEPT ![p] = IF t.kind = "proxy_blob" THEN "pb_response"
                                 ELSE "pm_head"]

\* A write guard on docker_clients_store that is never dropped.
drop_map_lock_leaked(lock, p) == lock

\* get_client: the write guard map_lock goes out of scope when the function
\* returns, on the `?` of authenticate as well as after the insert.
drop_map_lock(lock, p) == ReleaseWrite(lock, p)

\* A caller asks the client cache for the client of a key.
get_client_call(p) ==
    /\ ProxyFree(p)
    /\ \E registry_container_key \in ClientKeys :
        ptask' = [ptask EXCEPT ![p] =
                    [IdlePTask EXCEPT !.kind = "get_client",
                                      !.container_ref = registry_container_key,
                                      !.seq = nreq + 1]]
    /\ ppc' = [ppc EXCEPT ![p] = "gc_read"]
    /\ presp' = [presp EXCEPT ![p] = NoPResp]
    /\ nreq' = nreq + 1
    /\ UNCHANGED <<registryState, strategyVars, budget, proxyFs, docker_clients_store,
                   clientsLock, writes, proxyLog>>

\* DockerClientsStore::get_client under the read guard: the cached client
\* when there is one that needs no revalidation, else on to the write lock.
get_client_read(p) ==
    LET t == [ptask[p] EXCEPT !.lookups = @ + 1]
        key == t.container_ref
    IN
    /\ ppc[p] = "gc_read"
    /\ CanRead(clientsLock)
    /\ IF /\ key \in DOMAIN docker_clients_store
          /\ ~authentication_needs_revalidation(docker_clients_store[key])
       THEN ClientReady(p, t, docker_clients_store[key])
       ELSE /\ ptask' = [ptask EXCEPT ![p] = t]
            /\ ppc' = [ppc EXCEPT ![p] = "gc_write"]
    /\ UNCHANGED <<registryState, strategyVars, nreq, budget, proxyFs, docker_clients_store,
                   clientsLock, presp, writes, proxyLog>>

\* get_client: the write guard is taken, the key is split and a fresh
\* client starts to authenticate without credentials.
get_client_write(p) ==
    LET t == ptask[p]
        parts == split_registry_and_container(t.container_ref)
    IN
    /\ ppc[p] = "gc_write"
    /\ CanWrite(clientsLock)
    /\ IF parts = None
       THEN /\ ProxyReturn(p, t, ProxyPanicked)
            /\ UNCHANGED clientsLock
       ELSE /\ clientsLock' = AcquireWrite(clientsLock, p)
            /\ ptask' = [ptask EXCEPT ![p] =
                  [t EXCEPT !.client = DockerClient_new(parts[1][1], parts[1][2]),
                            !.username = None, !.password = None]]
            /\ ppc' = [ppc EXCEPT ![p] = "a_start"]
            /\ UNCHANGED presp
    /\ UNCHANGED <<registryState, strategyVars, nreq, budget, proxyFs, docker_clients_store,
                   writes, proxyLog>>

\* get_client after authenticate: the client is inserted and returned, or
\* the error is returned; the write guard is dropped either way.
get_client_insert(p) ==
    LET t == ptask[p] IN
    /\ ppc[p] = "gc_insert"
    /\ clientsLock' = drop_map_lock(clientsLock, p)
    /\ IF authenticate_ok(t.result)
       THEN /\ docker_clients_store' =
                  ClientsInsert(docker_clients_store, t.container_ref, t.client)
            /\ ClientReady(p, t, t.client)
            /\ UNCHANGED presp
       ELSE /\ ProxyReturn(p, GetClientReturned(t),
                            IF t.result = Panic THEN ProxyPanicked
                            ELSE ProxyErr(FromDockerClientError))
            /\ UNCHANGED docker_clients_store
    /\ UNCHANGED <<registryState, strategyVars, nreq, budget, proxyFs, writes, proxyLog>>

\* ------------------------------------------------------------- proxy blobs

\* The bytes the upstream holds for the one object it serves, and the
\* digest that names them.
UpstreamBytes == <<1, 2>>

UpstreamDigest == <<"sha256:", Sha256(UpstreamBytes)>>

\* Digests a client may ask the proxy for: the one of the upstream's
\* object, "..", and a word that is not of the form algo:hex.
ProxyDigests == {UpstreamDigest, <<"..", 0>>, <<"nocolon", 0>>}

\* Manifest references a client may ask the proxy for.
ProxyRefs == {<<"tag", 1>>, UpstreamDigest, <<"..", 0>>}

\* How the body of an upstream answer may arrive: whole, in chunks, or cut
\* by a transport failure.
UpstreamStreams == { << <<1>>, <<2>> >>, << <<1>>, StreamErr >> }

\* How an upstream may answer a blob or manifest request: no answer
\* (status 0), or a status; a 200 carries the headers the client needs or
\* lacks them.
UpstreamAnswers ==
    { [status |-> 0, headers |-> FALSE], [status |-> 200, headers |-> TRUE],
      [status |-> 200, headers |-> FALSE], [status |-> 404, headers |-> FALSE],
      [status |-> 500, headers |-> FALSE] }

\* DockerClient::query_blob / query_manifest: the result for an answer.
query_result(answer) ==
    IF answer.status = 0 THEN Err("ReqwestError", 0)
    ELSE IF answer.status # 200 THEN UnexpectedStatusCode(answer.status)
    ELSE IF ~answer.headers THEN Err("MissingExpectedHeader", 0)
    ELSE Ok

\* The cache-file writes of task p's handle that the blocking pool has not
\* run yet.
ProxyPending(p) == {op \in writes : op.owner = p /\ op.seq = ptask[p].seq}

\* A write_all that never reports the error its handle holds.
write_all_unchecked(p, t, chunk) ==
    [ok |-> TRUE,
     t |-> [t EXCEPT !.pos = @ + Len(chunk)],
     writes |-> writes \cup
         {[owner |-> p, seq |-> t.seq, path |-> t.path, pos |-> t.pos,
           chunk |-> chunk]}]

\* tokio::fs::File::write_all of chunk by task p's cache-file handle: the
\* error of the handle's previous write if it failed, else the chunk is
\* handed to the blocking pool and the call returns.
write_all(p, t, chunk) ==
    IF t.failed
    THEN [ok |-> FALSE, t |-> t, writes |-> writes]
    ELSE [ok |-> TRUE,
          t |-> [t EXCEPT !.pos = @ + Len(chunk)],
          writes |-> writes \cup
              {[owner |-> p, seq |-> t.seq, path |-> t.path, pos |-> t.pos,
                chunk |-> chunk]}]

\* GET /v2/proxy/:container_ref/blobs/:digest up to its first await: the
\* names are checked, then the cache path is tested with is_file.
proxy_blob(p) ==
    /\ ProxyFree(p)
    /\ \E container_ref \in ProxyKeys, digest \in ProxyDigests :
        LET path == blob_path(container_ref, digest)
            t == [IdlePTask EXCEPT
                    !.kind = "proxy_blob", !.container_ref = container_ref,
                    !.reference = digest, !.seq = nreq + 1, !.path = path,
                    !.solo = ProxyOverlap(p, path) = {},
                    !.after_complete = <<path, "complete">> \in proxyLog]
        IN
        /\ container_ref # "r/c" => digest = UpstreamDigest
        /\ IF ~ref_is_valid(container_ref)
           THEN /\ ppc' = [ppc EXCEPT ![p] = "idle"]
                /\ presp' = [presp EXCEPT ![p] = ProxyErr("InvalidRepositoryName")]
           ELSE IF ~tag_is_valid(digest)
           THEN /\ ppc' = [ppc EXCEPT ![p] = "idle"]
                /\ presp' = [presp EXCEPT ![p] = ProxyErr("InvalidTagName")]
           ELSE /\ ppc' = [ppc EXCEPT ![p] = IF path \in DOMAIN proxyFs
                                             THEN "pb_open" ELSE "gc_read"]
                /\ presp' = [presp EXCEPT ![p] = NoPResp]
        /\ ptask' = [q \in Procs |->
                      IF q = p THEN t
                      ELSE IF q \in ProxyOverlap(p, path)
                      THEN [ptask[q] EXCEPT !.solo = FALSE]
                      ELSE ptask[q]]
    /\ nreq' = nreq + 1
    /\ UNCHANGED <<registryState, strategyVars, budget, proxyFs, docker_clients_store,
                   clientsLock, writes, proxyLog>>

\* proxy_blob, cache hit: the file is opened and its size read; the
\* response is answered with the HIT header and streams the file.
proxy_blob_hit(p) ==
    LET t == ptask[p] IN
    /\ ppc[p] = "pb_open"
    /\ presp' = [presp EXCEPT ![p] =
          [NoPResp EXCEPT !.status = 200, !.cache = "HIT",
                          !.content_type = "application/octet-stream",
                          !.length = Len(proxyFs[t.path]),
                          !.state = "streaming"]]
    /\ ppc' = [ppc EXCEPT ![p] = "pb_read"]
    /\ UNCHANGED <<registryState, strategyVars, nreq, budget, proxyFs, docker_clients_store,
                   clientsLock, ptask, writes, proxyLog>>

\* The ReaderStream of a cache hit reads the file as it is now.
proxy_blob_read(p) ==
    /\ ppc[p] = "pb_read"
    /\ ProxyReturn(p, ptask[p],
                   [presp[p] EXCEPT !.body = proxyFs[ptask[p].path],
                                    !.state = "done"])
    /\ UNCHANGED <<registryState, strategyVars, nreq, budget, proxyFs, docker_clients_store,
                   clientsLock, writes, proxyLog>>

\* proxy_blob, cache miss, on the answer of query_blob: 404 is answered as
\* not found, another failure as an internal error; on success the cache
\* file is created at its final path and the response starts with the
\* MISS header.
proxy_blob_response(p) ==
    /\ ppc[p] = "pb_response"
    /\ \E answer \in UpstreamAnswers :
       \E stream \in (IF query_result(answer) = Ok THEN UpstreamStreams ELSE {<<>>}) :
        LET t == [ptask[p] EXCEPT !.answer = answer.status] IN
        IF query_result(answer) = Ok
        THEN /\ proxyFs' = Put(proxyFs, t.path, <<>>)
             /\ ptask' = [ptask EXCEPT ![p] =
                   [t EXCEPT !.inner_stream = stream, !.pos = 0,
                             !.created = TRUE]]
             /\ presp' = [presp EXCEPT ![p] =
                   [NoPResp EXCEPT !.status = 200, !.cache = "MISS",
                                   !.content_type = "application/octet-stream",
                                   !.length = Len(UpstreamBytes),
                                   !.state = "streaming"]]
             /\ ppc' = [ppc EXCEPT ![p] = "pb_stream"]
             /\ proxyLog' = proxyLog \cup {<<t.path, "miss">>}
        ELSE /\ ProxyReturn(p, t,
                    IF query_result(answer) = UnexpectedStatusCode(404)
                    THEN UpstreamNotFound
                    ELSE ProxyErr(FromDockerClientError))
             /\ UNCHANGED <<proxyFs, proxyLog>>
    /\ UNCHANGED <<registryState, strategyVars, nreq, budget, docker_clients_store,
                   clientsLock, writes>>

\* One item of the unfold stream is polled: the next upstream chunk is
\* written to the cache file and forwarded downstream; a failed read or a
\* failed write becomes an error item, on which the response is aborted;
\* the end of the upstream stream ends the response.
proxy_blob_stream(p) ==
    LET t == ptask[p]
        chunk == Head(t.inner_stream)
        written == write_all(p, t, chunk)
    IN
    /\ ppc[p] = "pb_stream"
    /\ IF t.inner_stream = <<>>
       THEN /\ ProxyReturn(p, t, [presp[p] EXCEPT !.state = "done"])
            /\ proxyLog' = proxyLog \cup {<<t.path, "complete">>}
            /\ UNCHANGED writes
       ELSE IF chunk = StreamErr
       THEN /\ ProxyReturn(p, t, [presp[p] EXCEPT !.state = "failed"])
            /\ UNCHANGED <<writes, proxyLog>>
       ELSE /\ ProxyPending(p) = {}
            /\ IF written.ok
               THEN /\ writes' = written.writes
                    /\ ptask' = [ptask EXCEPT ![p] =
                          [written.t EXCEPT !.inner_stream = Tail(@)]]
                    /\ presp' = [presp EXCEPT ![p].body = @ \o chunk]
                    /\ UNCHANGED <<ppc, proxyLog>>
               ELSE /\ ProxyReturn(p, t, [presp[p] EXCEPT !.state = "failed"])
                    /\ UNCHANGED <<writes, proxyLog>>
    /\ UNCHANGED <<registryState, strategyVars, nreq, budget, proxyFs, docker_clients_store,
                   clientsLock>>

\* The downstream consumer goes away: the response body, and the stream
\* with its file handle, are dropped.
proxy_blob_dropped(p) ==
    /\ ppc[p] = "pb_stream"
    /\ ProxyReturn(p, ptask[p], [presp[p] EXCEPT !.state = "dropped"])
    /\ UNCHANGED <<registryState, strategyVars, nreq, budget, proxyFs, docker_clients_store,
                   clientsLock, writes, proxyLog>>

\* The blocking pool runs a cache-file write: the bytes land at the
\* handle's offset, or the write fails and the handle keeps the error for
\* its next use.
proxy_blocking_write ==
    \E op \in writes, lands \in BOOLEAN :
        /\ writes' = writes \ {op}
        /\ proxyFs' = IF lands /\ op.path \in DOMAIN proxyFs
                      THEN [proxyFs EXCEPT ![op.path] = WriteAt(@, op.pos, op.chunk)]
                      ELSE proxyFs
        /\ ptask' = [q \in Procs |->
                      IF ~lands /\ q = op.owner /\ ptask[q].seq = op.seq
                      THEN [ptask[q] EXCEPT !.failed = TRUE]
                      ELSE ptask[q]]
        /\ UNCHANGED <<registryState, strategyVars, nreq, budget, docker_clients_store,
                       clientsLock, ppc, presp, proxyLog>>

\* --------------------------------------------------------- proxy manifests

\* ProxyManifestResponse of a successful query_manifest: the upstream's
\* Docker-Content-Digest, Content-Type and Content-Length.
UpstreamHead ==
    [hash |-> UpstreamDigest, content_type |-> "application/json",
     content_length |-> Len(UpstreamBytes)]

\* GET or HEAD /v2/proxy/:container_ref/manifests/:manifest_ref up to
\* get_client: the names are checked.  The upstream serves one manifest, so
\* the digest-named path the handler will work on is known from the start.
proxy_fetch_manifest(p) ==
    /\ ProxyFree(p)
    /\ \E container_ref \in ProxyKeys, manifest_ref \in ProxyRefs :
        LET path == manifest_path(container_ref, UpstreamDigest)
            t == [IdlePTask EXCEPT
                    !.kind = "proxy_manifest", !.container_ref = container_ref,
                    !.reference = manifest_ref, !.seq = nreq + 1, !.path = path,
                    !.solo = ProxyOverlap(p, path) = {}]
        IN
        /\ container_ref = ".." => manifest_ref = UpstreamDigest
        /\ IF ~ref_is_valid(container_ref)
           THEN /\ ppc' = [ppc EXCEPT ![p] = "idle"]
                /\ presp' = [presp EXCEPT ![p] = ProxyErr("InvalidRepositoryName")]
           ELSE IF ~tag_is_valid(manifest_ref)
           THEN /\ ppc' = [ppc EXCEPT ![p] = "idle"]
                /\ presp' = [presp EXCEPT ![p] = ProxyErr("InvalidTagName")]
           ELSE /\ ppc' = [ppc EXCEPT ![p] = "gc_read"]
                /\ presp' = [presp EXCEPT ![p] = NoPResp]
        /\ ptask' = [q \in Procs |->
                      IF q = p THEN t
                      ELSE IF q \in ProxyOverlap(p, path)
                      THEN [ptask[q] EXCEPT !.solo = FALSE]
                      ELSE ptask[q]]
    /\ nreq' = nreq + 1
    /\ UNCHANGED <<registryState, strategyVars, budget, proxyFs, docker_clients_store,
                   clientsLock, writes, proxyLog>>

\* proxy_fetch_manifest on the answer of the HEAD query: 404 is answered
\* as not found, another failure as an internal error; on success the
\* digest-named path is tested with is_file and, when absent, the manifest
\* is queried by its digest.
proxy_manifest_head(p) ==
    /\ ppc[p] = "pm_head"
    /\ \E answer \in UpstreamAnswers :
        LET t == [ptask[p] EXCEPT !.answer = answer.status] IN
        IF query_result(answer) = Ok
        THEN /\ ptask' = [ptask EXCEPT ![p] =
                  [t EXCEPT !.head = UpstreamHead,
                            !.requests =
                                IF t.path \in DOMAIN proxyFs THEN @
                                ELSE Append(@, Request("manifest",
                                       add_authentication(t.client.authentication)))]]
             /\ ppc' = [ppc EXCEPT ![p] = IF t.path \in DOMAIN proxyFs
                                          THEN "pm_open" ELSE "pm_get"]
             /\ UNCHANGED presp
        ELSE ProxyReturn(p, t,
                 IF query_result(answer) = UnexpectedStatusCode(404)
                 THEN UpstreamNotFound
                 ELSE ProxyErr(FromDockerClientError))
    /\ UNCHANGED <<registryState, strategyVars, nreq, budget, proxyFs, docker_clients_store,
                   clientsLock, writes, proxyLog>>

\* proxy_fetch_manifest on the answer of the GET query: any failure is
\* returned with `?`; on success the digest-named file is created.
proxy_manifest_get(p) ==
    /\ ppc[p] = "pm_get"
    /\ \E answer \in UpstreamAnswers :
       \E stream \in (IF query_result(answer) = Ok THEN UpstreamStreams ELSE {<<>>}) :
        LET t == [ptask[p] EXCEPT !.get_answer = answer.status] IN
        IF query_result(answer) = Ok
        THEN /\ proxyFs' = Put(proxyFs, t.path, <<>>)
             /\ ptask' = [ptask EXCEPT ![p] =
                   [t EXCEPT !.inner_stream = stream, !.pos = 0,
                             !.created = TRUE]]
             /\ ppc' = [ppc EXCEPT ![p] = "pm_write"]
             /\ UNCHANGED presp
        ELSE /\ ProxyReturn(p, t, ProxyErr(FromDockerClientError))
             /\ UNCHANGED proxyFs
    /\ UNCHANGED <<registryState, strategyVars, nreq, budget, docker_clients_store,
                   clientsLock, writes, proxyLog>>

\* One turn of the loop that writes the chunks of the upstream body to the
\* digest-named file; the file is neither flushed nor closed when the
\* body ends.
proxy_manifest_write(p) ==
    LET t == ptask[p]
        chunk == Head(t.inner_stream)
        written == write_all(p, t, chunk)
    IN
    /\ ppc[p] = "pm_write"
    /\ IF t.inner_stream = <<>>
       THEN /\ ppc' = [ppc EXCEPT ![p] = "pm_copy"]
            /\ UNCHANGED <<ptask, presp, writes>>
       ELSE IF chunk = StreamErr
       THEN /\ ProxyReturn(p, t, ProxyErr(FromDockerClientError))
            /\ UNCHANGED writes
       ELSE /\ ProxyPending(p) = {}
            /\ IF written.ok
               THEN /\ writes' = written.writes
                    /\ ptask' = [ptask EXCEPT ![p] =
                          [written.t EXCEPT !.inner_stream = Tail(@)]]
                    /\ UNCHANGED <<ppc, presp>>
               ELSE /\ ProxyReturn(p, t, ProxyErr(FromIoError))
                    /\ UNCHANGED writes
    /\ UNCHANGED <<registryState, strategyVars, nreq, budget, proxyFs, docker_clients_store,
                   clientsLock, proxyLog>>

\* tokio::fs::copy, first half: the destination is opened with create and
\* truncate.
ProxyCopyOpen(p, src, dst, then) ==
    /\ proxyFs' = Put(proxyFs, dst, <<>>)
    /\ ptask' = [ptask EXCEPT ![p].self_copies = IF src = dst THEN @ + 1 ELSE @]
    /\ ppc' = [ppc EXCEPT ![p] = then]
    /\ UNCHANGED <<registryState, strategyVars, nreq, budget, docker_clients_store,
                   clientsLock, presp, writes, proxyLog>>

\* tokio::fs::copy, second half: the bytes the source holds now are copied.
ProxyCopyFill(p, src, dst, then) ==
    /\ proxyFs' = [proxyFs EXCEPT ![dst] = proxyFs[src]]
    /\ ppc' = [ppc EXCEPT ![p] = then]
    /\ UNCHANGED <<registryState, strategyVars, nreq, budget, docker_clients_store,
                   clientsLock, ptask, presp, writes, proxyLog>>

\* proxy_fetch_manifest: the digest-named manifest is copied to the path
\* named by the reference of the request.
proxy_manifest_copy_open(p) ==
    /\ ppc[p] = "pm_copy"
    /\ ProxyCopyOpen(p, ptask[p].path,
                     manifest_path(ptask[p].container_ref, ptask[p].reference),
                     "pm_copy_fill")

proxy_manifest_copy(p) ==
    /\ ppc[p] = "pm_copy_fill"
    /\ ProxyCopyFill(p, ptask[p].path,
                     manifest_path(ptask[p].container_ref, ptask[p].reference),
                     "pm_meta")

\* proxy_fetch_manifest: the digest-named metadata file is created,
\* written and flushed.
proxy_manifest_metadata(p) ==
    LET t == ptask[p] IN
    /\ ppc[p] = "pm_meta"
    /\ proxyFs' = Put(proxyFs, manifest_meta(t.container_ref, t.head.hash),
                      to_string([hash |-> t.head.hash,
                                 content_type |-> t.head.content_type]))
    /\ ppc' = [ppc EXCEPT ![p] = "pm_meta_copy"]
    /\ UNCHANGED <<registryState, strategyVars, nreq, budget, docker_clients_store,
                   clientsLock, ptask, presp, writes, proxyLog>>

\* proxy_fetch_manifest: the digest-named metadata is copied to the path
\* named by the reference of the request.
proxy_manifest_metadata_copy_open(p) ==
    /\ ppc[p] = "pm_meta_copy"
    /\ ProxyCopyOpen(p, manifest_meta(ptask[p].container_ref, ptask[p].head.hash),
                     manifest_meta(ptask[p].container_ref, ptask[p].reference),
                     "pm_meta_fill")

proxy_manifest_metadata_copy(p) ==
    /\ ppc[p] = "pm_meta_fill"
    /\ ProxyCopyFill(p, manifest_meta(ptask[p].container_ref, ptask[p].head.hash),
                     manifest_meta(ptask[p].container_ref, ptask[p].reference),
                     "pm_open")

\* proxy_fetch_manifest: the digest-named file is opened and the response
\* is answered with the headers of the HEAD query.
proxy_manifest_open(p) ==
    LET t == ptask[p] IN
    /\ ppc[p] = "pm_open"
    /\ IF t.path \in DOMAIN proxyFs
       THEN /\ presp' = [presp EXCEPT ![p] =
                  [NoPResp EXCEPT !.status = 200,
                                  !.content_type = t.head.content_type,
                                  !.digest = t.head.hash,
                                  !.length = t.head.content_length,
                                  !.state = "streaming"]]
            /\ ppc' = [ppc EXCEPT ![p] = "pm_read"]
            /\ UNCHANGED ptask
       ELSE ProxyReturn(p, t, ProxyErr(FromIoError))
    /\ UNCHANGED <<registryState, strategyVars, nreq, budget, proxyFs, docker_clients_store,
                   clientsLock, writes, proxyLog>>

\* The ReaderStream of the manifest response reads the file as it is now.
proxy_manifest_read(p) ==
    /\ ppc[p] = "pm_read"
    /\ ProxyReturn(p, ptask[p],
                   [presp[p] EXCEPT !.body = proxyFs[ptask[p].path],
                                    !.state = "done"])
    /\ UNCHANGED <<registryState, strategyVars, nreq, budget, proxyFs, docker_clients_store,
                   clientsLock, writes, proxyLog>>

\* ------------------------------------------------------------ specification

vars == <<registryState, nreq, budget, proxyVars>>

\* The state after main has built the stores, before any request.
Init ==
    /\ InitUploads
    /\ regFs = <<>>
    /\ budget = MaxRequests
    /\ InitProxy

InitSeq ==
    /\ InitUploads
    /\ regFs = <<>>
    /\ budget = MaxSeqRequests
    /\ InitProxy

InitManifest ==
    /\ InitUploads
    /\ regFs = <<>>
    /\ budget = MaxManifestRequests
    /\ InitProxy

\* One step of the handler task p runs.
Handler(p) ==
    \/ initiate_upload(p)
    \/ process_blob_chunk_upload(p)
    \/ finalize_blob_upload(p)
    \/ delete_upload_handler(p)
    \/ create_upload(p)
    \/ fetch_upload(p)
    \/ write_blob_is_file(p)
    \/ write_blob_open(p)
    \/ write_blob_chunk(p)
    \/ write_blob_end(p)
    \/ finalize_upload(p)
    \/ cleanup_is_file(p)
    \/ cleanup_upload(p)
    \/ delete_upload(p)

\* Requests served concurrently by the tasks of the runtime.
Next == (\E p \in Procs : Handler(p)) /\ UNCHANGED proxyVars

Spec == Init /\ [][Next]_vars

\* Requests served one after the other.
NextSeq == Handler(1) /\ UNCHANGED proxyVars

SpecSeq == InitSeq /\ [][NextSeq]_vars

\* Uploads started and finalized one request after the other, the finalize
\* requests naming the session's repository or another one.
NextFinalize ==
    /\ \/ initiate_upload(1)
       \/ finalize_blob_upload_from(1, FinalizeRequests)
       \/ create_upload(1)
       \/ fetch_upload(1)
       \/ write_blob_is_file(1)
       \/ write_blob_open(1)
       \/ write_blob_chunk(1)
       \/ write_blob_end(1)
       \/ finalize_upload(1)
       \/ delete_upload(1)
    /\ UNCHANGED proxyVars

SpecFinalize == InitSeq /\ [][NextFinalize]_vars

\* Uploads started and appended to concurrently.
AppendHandler(p) ==
    \/ initiate_upload(p)
    \/ process_blob_chunk_upload(p)
    \/ create_upload(p)
    \/ fetch_upload(p)
    \/ write_blob_is_file(p)
    \/ write_blob_open(p)
    \/ write_blob_chunk(p)
    \/ write_blob_end(p)

NextAppend == (\E p \in Procs : AppendHandler(p)) /\ UNCHANGED proxyVars

SpecAppend == InitSeq /\ [][NextAppend]_vars

\* Requests served one after the other while time passes and the cleanup
\* task sweeps.
NextPrune ==
    /\ \/ Handler(1)
       \/ Tick
       \/ prune
    /\ UNCHANGED proxyVars

SpecPrune == Init /\ [][NextPrune]_vars

\* One step of a manifest handler run by task p.
ManifestHandler(p) ==
    \/ upload_manifest(p)
    \/ fetch_manifest(p)
    \/ save_manifest_create(p)
    \/ save_manifest_chunk(p)
    \/ save_manifest_hash(p)
    \/ save_manifest_rename(p)
    \/ save_manifest_copy_open(p)
    \/ save_manifest_copy(p)
    \/ save_manifest_metadata(p)
    \/ save_manifest_metadata_copy_open(p)
    \/ save_manifest_metadata_copy(p)
    \/ fetch_manifest_open(p)
    \/ fetch_manifest_read(p)

\* Manifests saved and fetched concurrently while the blocking pool runs
\* the writes handed to it.
NextManifest ==
    /\ \/ \E p \in Procs : ManifestHandler(p)
       \/ blocking_write
    /\ UNCHANGED proxyVars

SpecManifest == InitManifest /\ [][NextManifest]_vars

\* One step of DockerClient::authenticate run by task p.
AuthHandler(p) ==
    \/ authenticate_call(p)
    \/ authenticate_begin(p)
    \/ authenticate_probe(p)
    \/ authenticate_token(p)
    \/ authenticate_verify(p)

InitAuth ==
    /\ InitUploads
    /\ regFs = <<>>
    /\ budget = MaxAuthCalls
    /\ InitProxy

\* A caller authenticates one client against an upstream, again and again.
NextAuth == AuthHandler(1)

SpecAuth == InitAuth /\ [][NextAuth]_vars

\* One step of the client cache and of the authentication it runs for
\* task p.
ClientHandler(p) ==
    \/ get_client_read(p)
    \/ get_client_write(p)
    \/ get_client_insert(p)
    \/ authenticate_begin(p)
    \/ authenticate_probe(p)
    \/ authenticate_token(p)
    \/ authenticate_verify(p)

\* One step of proxy_blob run by task p.
ProxyBlobHandler(p) ==
    \/ proxy_blob(p)
    \/ proxy_blob_hit(p)
    \/ proxy_blob_read(p)
    \/ proxy_blob_response(p)
    \/ proxy_blob_stream(p)
    \/ proxy_blob_dropped(p)

InitProxyRequests ==
    /\ InitUploads
    /\ regFs = <<>>
    /\ budget = MaxProxyRequests
    /\ InitProxy

\* Blobs are pulled through the proxy by concurrent requests.
NextProxyBlob ==
    \/ \E p \in Procs : ClientHandler(p)
    \/ \E p \in Procs : ProxyBlobHandler(p)
    \/ proxy_blocking_write

SpecProxyBlob == InitProxyRequests /\ [][NextProxyBlob]_vars

InitProxyTee ==
    /\ InitUploads
    /\ regFs = <<>>
    /\ budget = MaxTeeRequests
    /\ InitProxy

\* Blobs are pulled through the proxy by requests that miss the cache:
\* each one tees the upstream body into the cache file and downstream.
NextProxyTee ==
    \/ \E p \in Procs : ClientHandler(p)
    \/ \E p \in Procs : proxy_blob(p) /\ ppc'[p] # "pb_open"
    \/ \E p \in Procs : proxy_blob_response(p)
    \/ \E p \in Procs : proxy_blob_stream(p)
    \/ \E p \in Procs : proxy_blob_dropped(p)
    \/ proxy_blocking_write

SpecProxyTee == InitProxyTee /\ [][NextProxyTee]_vars

\* One step of proxy_fetch_manifest run by task p.
ProxyManifestHandler(p) ==
    \/ proxy_fetch_manifest(p)
    \/ proxy_manifest_head(p)
    \/ proxy_manifest_get(p)
    \/ proxy_manifest_write(p)
    \/ proxy_manifest_copy_open(p)
    \/ proxy_manifest_copy(p)
    \/ proxy_manifest_metadata(p)
    \/ proxy_manifest_metadata_copy_open(p)
    \/ proxy_manifest_metadata_copy(p)
    \/ proxy_manifest_open(p)
    \/ proxy_manifest_read(p)

\* Manifests are pulled through the proxy by concurrent requests.
NextProxyManifest ==
    \/ \E p \in Procs : ClientHandler(p)
    \/ \E p \in Procs : ProxyManifestHandler(p)
    \/ proxy_blocking_write

SpecProxyManifest == InitProxyRequests /\ [][NextProxyManifest]_vars

InitClients ==
    /\ InitUploads
    /\ regFs = <<>>
    /\ budget = MaxClientCalls
    /\ InitProxy

\* Concurrent callers ask the client cache for clients as time passes.
NextClients ==
    \/ \E p \in Procs : get_client_call(p)
    \/ \E p \in Procs : ClientHandler(p)
    \/ ticks < MaxClientTicks /\ Tick /\ UNCHANGED proxyVars

SpecClients == InitClients /\ [][NextClients]_vars

InitClientsLive ==
    /\ InitUploads
    /\ regFs = <<>>
    /\ budget = MaxLiveCalls
    /\ InitProxy

\* Concurrent callers ask the client cache for clients.
NextClientsLive ==
    \/ \E p \in Procs : get_client_call(p)
    \/ \E p \in Procs : ClientHandler(p)

\* The callers of get_client under the runtime's scheduling: a task that can
\* take a step is eventually polled, and each upstream exchange terminates.
SpecClientsLive ==
    /\ InitClientsLive
    /\ [][NextClientsLive]_vars
    /\ \A p \in Procs : WF_vars(ClientHandler(p))

InitStrategy ==
    /\ InitUploads
    /\ regFs = <<>>
    /\ budget = MaxStrategies
    /\ InitProxy

\* Strategies are built, executed and asked whether they are stale as
\* time passes.
NextStrategy ==
    \/ strategy_new
    \/ strategy_execute
    \/ strategy_elapse

SpecStrategy == InitStrategy /\ [][NextStrategy]_vars

\* The path helper is called with one input after the other.
NextPaths ==
    /\ resolve_path
    /\ UNCHANGED <<registryState, nreq, budget, proxyFs, docker_clients_store,
                   clientsLock, ppc, ptask, presp, writes, proxyLog,
                   auth_strategy, utc_now, outcome>>

SpecPaths == InitStrategy /\ [][NextPaths]_vars

\* ------------------------------------------------------ upload properties

\* The request of task t reaches the lookup of its upload id: its
\* repository name is valid and, for a finalize, its digest has a colon.
Looked(t) ==
    /\ t.kind \in {"append", "finalize", "cancel"}
    /\ ref_is_valid(t.container_ref)
    /\ t.kind = "finalize" => SplitOnce(t.digest) # <<"none", 0>>

\* Task p has answered a request of the given kind and holds its result.
Answered(p, kind) == pc[p] = "idle" /\ task[p].kind = kind /\ resp[p] # NoResp

NotFound(r) == r.status = 404 /\ r.code = "BLOB_UPLOAD_UNKNOWN"

\* C1: Upload round-trip.  When a session receives its chunks in appends
\* made one request after the other and is then finalized with the digest
\* of all the bytes sent, the finalize succeeds, the blob at the
\* content-addressed path of (repository, digest) holds exactly those
\* bytes, and the session is no longer in the store.
C1_UploadRoundTrip ==
    \A p \in Procs :
        (Answered(p, "finalize") /\ task[p].honest /\ task[p].body = <<>>)
        => /\ resp[p].status = 201
           /\ task[p].upload \notin DOMAIN uploads
           /\ blob_path(task[p].upload_ref, SplitOnce(task[p].digest)) \in DOMAIN regFs
           /\ regFs[blob_path(task[p].upload_ref, SplitOnce(task[p].digest))]
                = task[p].expect

\* C2: Finalize atomicity.  In every reachable state, every file at a
\* digest-named blob path has content that hashes to the digest in its name.
C2_BlobMatchesItsName ==
    \A path \in DOMAIN regFs :
        path[3] = "blobs" => path[4] = <<"hex", Sha256(regFs[path])>>

\* C3: Append is resumable.  Every append that runs alone on a session and
\* whose body arrives intact succeeds, leaves the temporary file holding its
\* previous content followed by all the chunks of the body, and answers
\* with the resulting total size.
C3_AppendResumable ==
    \A p \in Procs :
        (Answered(p, "append") /\ task[p].upload # NoUpload /\ ~HasErr(task[p].body))
        => /\ resp[p].status = 202
           /\ resp[p].range = Len(task[p].before) + Len(Flatten(task[p].body))
           /\ temporary_blob_path(task[p].upload) \in DOMAIN tempFs
           /\ tempFs[temporary_blob_path(task[p].upload)]
                = task[p].before \o Flatten(task[p].body)

\* C4: Zero-length append.  An append of a body without bytes to a known
\* session succeeds, answers with the size the session had before, and
\* leaves the temporary file with the content it had before (empty when
\* the file did not exist).
C4_ZeroLengthAppend ==
    \A p \in Procs :
        ( /\ Answered(p, "append")
          /\ task[p].upload # NoUpload
          /\ Flatten(task[p].body) = <<>>
          /\ ~HasErr(task[p].body) )
        => /\ resp[p].status = 202
           /\ resp[p].range = Len(task[p].before)
           /\ temporary_blob_path(task[p].upload) \in DOMAIN tempFs
           /\ tempFs[temporary_blob_path(task[p].upload)] = task[p].before

\* A zero-length append was answered on a session that already held bytes.
C4_Witness ==
    \E p \in Procs :
        /\ Answered(p, "append")
        /\ task[p].body = << <<>> >>
        /\ task[p].before # <<>>
        /\ resp[p].status = 202
        /\ resp[p].range = Len(task[p].before)

\* A request is answered in this step after the lookup of an upload id that
\* does not parse or is not in the store.
C5_Step ==
    \A p \in Procs :
        ( /\ pc'[p] = "idle"
          /\ pc[p] = "fetch" \/ (pc[p] = "idle" /\ nreq' # nreq)
          /\ Looked(task'[p])
          /\ ParseUuid(task'[p].raw_uuid) = NoUpload \/ task'[p].unknown )
        => /\ NotFound(resp'[p])
           /\ uploads' = uploads
           /\ tempFs' = tempFs
           /\ regFs' = regFs

\* C5: A request whose upload id is unknown, or does not parse as an id, is
\* answered 404 BLOB_UPLOAD_UNKNOWN (never 500 or a validation error), and
\* the step that answers it leaves the store and the files as they were.
C5_UnknownIdIsNotFound == [][C5_Step]_vars

\* One request with an unparsable id and one with an unknown id were
\* answered not found.
C5_Witness ==
    \E p, q \in Procs :
        /\ Answered(p, "append") /\ ParseUuid(task[p].raw_uuid) = NoUpload
        /\ Looked(task[p]) /\ NotFound(resp[p])
        /\ Answered(q, "append") /\ task[q].unknown /\ NotFound(resp[q])

\* C6: Cancel.  A session whose cancel was answered is not in the store;
\* the temporary file of a session cancelled by a request that ran alone is
\* gone; every later request that looks the id up is answered not found.
C6_CancelRemovesSession ==
    /\ \A u \in cancelled : u \notin DOMAIN uploads
    /\ \A p \in Procs :
        /\ (Answered(p, "cancel") /\ resp[p].status = 204 /\ task[p].solo)
            => temporary_blob_path(task[p].upload) \notin DOMAIN tempFs
        /\ (pc[p] = "idle" /\ task[p].afterCancel /\ Looked(task[p]))
            => NotFound(resp[p])

\* An append or finalize of a cancelled session was answered not found.
C6_Witness ==
    \E p \in Procs :
        /\ pc[p] = "idle"
        /\ task[p].kind \in {"append", "finalize"}
        /\ task[p].afterCancel
        /\ ParseUuid(task[p].raw_uuid) \in cancelled
        /\ NotFound(resp[p])

\* A handler past its lookup: writing chunks, renaming or cleaning up.
PastLookup == {"wb_check", "wb_open", "wb_write", "fin_rename", "cleanup", "cleanup_rm"}

\* C8: Session independence.  A task that is writing a chunk (or is anywhere
\* between its lookup and its answer) holds no guard of the map lock, so
\* the lookups and insertions of the other tasks are enabled; the session
\* locks are only ever read-locked, so writers of different sessions run
\* side by side.
C8_SessionIndependence ==
    \A p \in Procs :
        pc[p] \in PastLookup
        => /\ p \notin mapLock.readers
           /\ mapLock.writer # p
           /\ \A q \in Procs \ {p} :
                /\ pc[q] = "fetch" => ENABLED fetch_upload(q)
                /\ pc[q] = "create" => ENABLED create_upload(q)
                /\ pc[q] = "wb_write" => ENABLED (write_blob_chunk(q) \/ write_blob_end(q))

\* Two tasks are in the middle of writing chunks to different sessions.
C8_Witness ==
    \E p, q \in Procs :
        /\ pc[p] = "wb_write" /\ pc[q] = "wb_write"
        /\ task[p].upload # task[q].upload
        /\ task[p].pos > 0 /\ task[p].stream # <<>>
        /\ task[q].pos > 0 /\ task[q].stream # <<>>

\* ------------------------------------------------------- prune properties

\* The cleanup task's sweep runs in this step.
Sweeps == pruneDue /\ ~pruneDue'

C7_Step ==
    Sweeps =>
        \A u \in DOMAIN uploads :
            /\ now - lastActivity[u] > UPLOAD_PRUNE_AGE
                => /\ u \notin DOMAIN uploads'
                   /\ temporary_blob_path(u) \notin DOMAIN tempFs'
            /\ now - lastActivity[u] < UPLOAD_PRUNE_AGE
                => /\ u \in DOMAIN uploads'
                   /\ temporary_blob_path(u) \in DOMAIN tempFs
                        => /\ temporary_blob_path(u) \in DOMAIN tempFs'
                           /\ tempFs'[temporary_blob_path(u)]
                                = tempFs[temporary_blob_path(u)]

\* C7: Prune invariant.  A sweep removes from the store every session whose
\* last activity is older than UPLOAD_PRUNE_AGE, together with its temporary
\* file, and leaves every session with younger activity in the store with
\* its temporary file untouched.
C7_PruneInvariant == [][C7_Step]_vars

\* ----------------------------------------------------- manifest properties

\* C9: Manifest alias consistency.  Once a save of a manifest under a tag
\* has been answered 201 and nothing else is running, a fetch by the tag and
\* a fetch by the digest of the saved bytes both succeed and return the same
\* bytes (the saved ones), the same digest and the same content type.
C9_AliasConsistency ==
    \A p \in Procs :
        ( /\ Answered(p, "put_manifest")
          /\ resp[p].status = 201
          /\ task[p].manifest_ref[1] = "tag"
          /\ task[p].solo
          /\ task[p].seq = nreq
          /\ \A q \in Procs : pc[q] = "idle"
          /\ blocking = {} )
        => LET byTag == FetchNow(task[p].container_ref, task[p].manifest_ref)
               byDigest == FetchNow(task[p].container_ref,
                                    <<"sha256:", Sha256(Flatten(task[p].body))>>)
           IN /\ byTag.status = 200
              /\ byDigest.status = 200
              /\ byTag.content = Flatten(task[p].body)
              /\ byDigest.content = byTag.content
              /\ byDigest.digest = byTag.digest
              /\ byDigest.content_type = byTag.content_type

\* The digest-named manifest and metadata of digest d in repository r exist
\* completely: the manifest hashes to d and the metadata parses and names d.
DigestComplete(r, d) ==
    /\ manifest_path(r, d) \in DOMAIN regFs
    /\ WithSha256(<<"hex", Sha256(regFs[manifest_path(r, d)])>>) = d
    /\ manifest_meta(r, d) \in DOMAIN regFs
    /\ from_str_ok(regFs[manifest_meta(r, d)])
    /\ from_str(regFs[manifest_meta(r, d)]).hash = StripSha256(d)

\* C10: Manifest publish ordering.  In every state in which a tag-named
\* manifest file is visible, a digest-named manifest and its digest-named
\* metadata exist completely in the same repository.
C10_PublishOrdering ==
    \A path \in DOMAIN regFs :
        (path[3] = "manifests" /\ path[4][1] = "tag")
        => \E other \in DOMAIN regFs :
              /\ other[1] = path[1]
              /\ other[3] = "manifests"
              /\ other[4][1] = "sha256:"
              /\ DigestComplete(other[1], other[4])

\* A fetch of a manifest is answered in this step: at the open of the
\* manifest file, or at the read of its metadata.
C11_Step ==
    \A p \in Procs :
        LET t == task[p]
            absent ==
                \/ /\ pc[p] = "f_open"
                   /\ manifest_path(t.container_ref, t.manifest_ref) \notin DOMAIN regFs
                \/ /\ pc[p] = "f_read"
                   /\ manifest_meta(t.container_ref, t.manifest_ref) \notin DOMAIN regFs
        IN (pc[p] \in {"f_open", "f_read"} /\ pc'[p] = "idle" /\ absent)
           => /\ resp'[p].status = 404
              /\ resp'[p].code = "NAME_UNKNOWN"

\* C11: Manifest fetch.  A fetch that finds the reference-named manifest
\* file absent, or its metadata file absent, is answered with
\* ManifestNotFound (404 NAME_UNKNOWN), never with an internal error or an
\* abort.
C11_FetchAbsentIsNotFound == [][C11_Step]_vars

\* C12: Saved digest.  A manifest save that is answered 201 has computed, as
\* its digest, "sha256:" followed by the hash of the bytes it received, and
\* reports exactly that string (the prefix once) as Docker-Content-Digest,
\* whether the reference is a tag or a digest.
C12_SavedDigestIsContentDigest ==
    \A p \in Procs :
        (Answered(p, "put_manifest") /\ resp[p].status = 201)
        => /\ task[p].docker_hash = <<"sha256:", Sha256(Flatten(task[p].body))>>
           /\ resp[p].digest = <<"sha256:", Sha256(Flatten(task[p].body))>>

\* ------------------------------------------------ authentication properties

\* Task p's call of authenticate has returned (or panicked).
Authenticated(p) ==
    ppc[p] = "idle" /\ ptask[p].kind = "authenticate" /\ ptask[p].result # NoResult

\* C18: Authentication probe.  When the unauthenticated probe is answered
\* 200 the client adopts Anonymous and authenticate succeeds having sent
\* only the probe; when it is answered with a status other than 200 and
\* 401, authenticate fails with UnexpectedStatusCode carrying that status
\* and the client has no authentication state.
C18_ProbeOutcome ==
    \A p \in Procs :
        Authenticated(p) =>
            /\ ptask[p].probe = 200
                => /\ ptask[p].result = Ok
                   /\ ptask[p].client.authentication = Anonymous
                   /\ ptask[p].requests = <<Request("probe", "none")>>
            /\ ptask[p].probe \in ProbeStatuses \ {0, 200, 401}
                => /\ ptask[p].result = Err("UnexpectedStatusCode", ptask[p].probe)
                   /\ ptask[p].client.authentication = NoAuthentication
                   /\ ptask[p].requests = <<Request("probe", "none")>>

\* A call whose probe was answered 500 failed with that status, and so did
\* not leave the client authenticated.
C18_Witness ==
    \E p \in Procs :
        /\ Authenticated(p)
        /\ ptask[p].probe = 500
        /\ ptask[p].result = Err("UnexpectedStatusCode", 500)
        /\ ptask[p].client.authentication = NoAuthentication

\* C19: Verification failure.  When the verification request sent after
\* the tentative adoption of Basic or Bearer credentials is not answered
\* 200 (401, another status, or no answer), authenticate returns an error
\* and the client has no authentication state; a 401 is reported as bad
\* credentials.
C19_FailedVerificationDiscards ==
    \A p \in Procs :
        ( /\ Authenticated(p)
          /\ ptask[p].scheme \in {"Basic", "Bearer"}
          /\ ptask[p].verification \in VerifyStatuses \ {200} )
        => /\ ptask[p].result.ok = "Err"
           /\ ptask[p].client.authentication = NoAuthentication
           /\ ptask[p].verification = 401
                => ptask[p].result = Err("BadBasicAuthCredentials", 0)

\* A Bearer token was adopted, its verification was answered 401, and the
\* call failed with bad credentials.
C19_Witness ==
    \E p \in Procs :
        /\ Authenticated(p)
        /\ ptask[p].scheme = "Bearer"
        /\ ptask[p].verification = 401
        /\ Request("verify", "bearer") = ptask[p].requests[Len(ptask[p].requests)]
        /\ ptask[p].result = Err("BadBasicAuthCredentials", 0)

\* C20: Basic without credentials.  When the probe is answered 401 with a
\* Basic challenge and the caller supplied no username, authenticate fails
\* with the bad-credentials error, every request it sent is without
\* credentials, and the client has no authentication state; the Basic
\* strategy likewise refuses to execute without a username and keeps its
\* fields.
C20_BasicWithoutCredentials ==
    /\ \A p \in Procs :
        ( /\ Authenticated(p)
          /\ ptask[p].probe = 401
          /\ ptask[p].scheme = "Basic"
          /\ ptask[p].username = None )
        => /\ ptask[p].result = Err("BadBasicAuthCredentials", 0)
           /\ \A i \in 1..Len(ptask[p].requests) : ptask[p].requests[i].auth = "none"
           /\ ptask[p].client.authentication = NoAuthentication
    /\ \A password \in Passwords :
        LET strategy == [username |-> "old", password |-> None]
            executed == execute_authentication(strategy, None, password)
        IN /\ executed.result = Err("BadAuthenticationCredentials", 0)
           /\ executed.strategy = strategy

\* A caller with a password but no username met a Basic challenge.
C20_Witness ==
    \E p \in Procs :
        /\ Authenticated(p)
        /\ ptask[p].probe = 401
        /\ ptask[p].scheme = "Basic"
        /\ ptask[p].username = None
        /\ ptask[p].password # None
        /\ ptask[p].result.ok = "Err"

\* ------------------------------------------------------- proxy properties

\* C13: when the reference of a manifest is itself the digest, the step of
\* proxy_fetch_manifest that publishes the manifest, or its metadata,
\* under the reference copies nothing onto the digest-named file, which
\* keeps its bytes.
C13_Step ==
    \A p \in Procs :
        LET t == ptask[p] IN
        ( /\ ppc[p] \in {"pm_copy", "pm_meta_copy"}
          /\ ppc'[p] # ppc[p]
          /\ t.reference = t.head.hash )
        => /\ proxyFs'[t.path] = proxyFs[t.path]
           /\ ptask'[p].self_copies = 0
           /\ manifest_meta(t.container_ref, t.head.hash) \in DOMAIN proxyFs
              => proxyFs'[manifest_meta(t.container_ref, t.head.hash)]
                   = proxyFs[manifest_meta(t.container_ref, t.head.hash)]

C13_NoSelfCopy == [][C13_Step]_vars

\* C14: when the response of a blob miss fails, or its consumer stops, no
\* file remains at the final cache path.
C14_Step ==
    \A p \in Procs :
        ( /\ ptask[p].kind = "proxy_blob"
          /\ ptask[p].solo
          /\ presp[p].cache = "MISS"
          /\ presp[p].state = "streaming"
          /\ presp'[p].state \in {"failed", "dropped"} )
        => ptask[p].path \notin DOMAIN proxyFs'

C14_NoPartialCacheFile == [][C14_Step]_vars

\* C15: once the stream of a blob miss is fully consumed the cache path
\* holds the upstream bytes, and a fetch of the digest that arrives after
\* that answers HIT with the upstream bytes, with no upstream request and
\* no client-cache lookup.
C15_HitAfterMiss ==
    \A p \in Procs :
        LET t == ptask[p] IN
        /\ ( /\ t.kind = "proxy_blob"
             /\ t.solo
             /\ presp[p].cache = "MISS"
             /\ presp[p].state = "done"
             /\ ProxyPending(p) = {} )
           => proxyFs[t.path] = UpstreamBytes
        /\ ( /\ t.kind = "proxy_blob"
             /\ t.after_complete
             /\ ppc[p] = "idle" )
           => /\ presp[p].cache = "HIT"
              /\ presp[p].body = UpstreamBytes
              /\ presp[p].length = Len(UpstreamBytes)
              /\ t.requests = <<>>
              /\ t.lookups = 0

\* The cache file of task p's miss once the write its handle has handed to
\* the blocking pool has run.
ProxyLanded(p) ==
    LET file == proxyFs[ptask[p].path] IN
    IF ProxyPending(p) = {} THEN file
    ELSE LET op == CHOOSE o \in ProxyPending(p) : TRUE
         IN WriteAt(file, op.pos, op.chunk)

\* C16: during a blob miss the bytes forwarded downstream are a prefix of
\* the bytes written to the cache file, and equal to them at the end of
\* the stream.
C16_TeePrefix ==
    \A p \in Procs :
        ( /\ ptask[p].kind = "proxy_blob"
          /\ ptask[p].solo
          /\ presp[p].cache = "MISS" )
        => /\ Len(presp[p].body) <= Len(ProxyLanded(p))
           /\ SubSeq(ProxyLanded(p), 1, Len(presp[p].body)) = presp[p].body
           /\ presp[p].state = "done" => ProxyLanded(p) = presp[p].body

\* The handler of task p returns on an upstream answer `status` to its
\* request `kind`: not found on 404, an internal error otherwise, no file
\* touched, the request sent once.
UpstreamFailure(p, status, kind) ==
    /\ ppc'[p] = "idle"
    /\ presp'[p].status = IF status = 404 THEN 404 ELSE 500
    /\ proxyFs' = proxyFs
    /\ Cardinality({i \in DOMAIN ptask'[p].requests :
                        ptask'[p].requests[i].kind = kind}) = 1

\* C17: on a proxy fetch an upstream 404 answers not found and creates no
\* cache file, another non-2xx status or a transport failure answers an
\* internal error, and the upstream request is sent once.
C17_Step ==
    \A p \in Procs :
        /\ (ptask[p].answer = -1 /\ ptask'[p].answer \notin {-1, 200})
           => UpstreamFailure(p, ptask'[p].answer,
                              IF ptask'[p].kind = "proxy_blob" THEN "blob"
                              ELSE "manifest_head")
        /\ (ptask[p].get_answer = -1 /\ ptask'[p].get_answer \notin {-1, 200})
           => UpstreamFailure(p, ptask'[p].get_answer, "manifest")

C17_UpstreamFailures == [][C17_Step]_vars

\* --------------------------------------------- bearer token properties

\* The token responses with status 200 that carry no usable token.
RefusedResponses(at) ==
    {r \in TokenResponses(at) :
        r.status = 200 /\ r.token \in {"", "unauthenticated"}}

\* C21: in the Bearer flow a token response with status 200 whose token is
\* empty or the literal unauthenticated is rejected credentials:
\* authenticate fails and the client adopts no Bearer state, and the Bearer
\* strategy fails likewise and keeps its token, issue time and lifetime.
C21_RefusedTokenNotAdopted ==
    /\ \A p \in Procs :
        ( /\ ptask[p].kind = "authenticate"
          /\ ptask[p].token_response.status = 200
          /\ ptask[p].token_response.token \in {"", "unauthenticated"} )
        => /\ ppc[p] = "idle"
           /\ ptask[p].result = Err("BadBasicAuthCredentials", 0)
           /\ ptask[p].client.authentication = NoAuthentication
           /\ ptask[p].requests[Len(ptask[p].requests)].kind = "token"
    /\ \A r \in RefusedResponses(now) :
        BearerExecuteAuthentication(BearerTokenAuthStrategy_new("c", now), r, now)
          = [result |-> Err("BadAuthenticationCredentials", 0),
             strategy |-> BearerTokenAuthStrategy_new("c", now)]

\* The token endpoint answered 200 with the token unauthenticated and the
\* call failed with bad credentials.
C21_Witness ==
    \E p \in Procs :
        /\ Authenticated(p)
        /\ ptask[p].token_response.status = 200
        /\ ptask[p].token_response.token = "unauthenticated"
        /\ ptask[p].result = Err("BadBasicAuthCredentials", 0)
        /\ ptask[p].client.authentication = NoAuthentication

\* The instant a token response says its token was issued at, `at` when
\* it does not say.
IssuedOf(response, at) ==
    IF response.issued_at = None THEN at
    ELSE parse_from_rfc3339(response.issued_at[1])

\* The lifetime in seconds a token response gives its token.
LifetimeOf(response) ==
    IF response.expires_in = None THEN 60 ELSE response.expires_in[1]

\* C22: on a successful Bearer token response the adopted state has the
\* lifetime expires_in, 60 seconds when absent, counted from the issued_at
\* of the response, from the current time when absent.
C22_AdoptedLifetime ==
    /\ \A p \in Procs :
        ( /\ ptask[p].kind = "authenticate"
          /\ ptask[p].token_response.status = 200
          /\ ptask[p].client.authentication.kind = "Token" )
        => ptask[p].client.authentication.expires_at
             = IssuedOf(ptask[p].token_response, now)
                 + LifetimeOf(ptask[p].token_response)
    /\ ( /\ outcome.before.kind = "Bearer"
         /\ outcome.response.status = 200
         /\ outcome.response.token = "abc" )
       => /\ outcome.result = Ok
          /\ auth_strategy.expires_in = LifetimeOf(outcome.response)
          /\ auth_strategy.created_at = IssuedOf(outcome.response, outcome.at)

\* ------------------------------------------------- staleness properties

\* C23: Anonymous and Basic authentication never require
\* re-authentication, whatever time has passed; only a Bearer state can
\* become stale.
C23_StaticNeverStale ==
    /\ auth_strategy.kind \in {"Basic", "Anonymous"}
          => ~needs_reauthenticating(auth_strategy, utc_now)
    /\ (auth_strategy.kind # "none"
          /\ needs_reauthenticating(auth_strategy, utc_now))
          => auth_strategy.kind = "Bearer"
    /\ \A username \in Usernames, password \in Passwords :
          \A a \in {Anonymous, Basic(username, password)} :
              ~authentication_needs_revalidation(
                   [DockerClient_new("r", "c") EXCEPT !.authentication = a])

\* A Basic strategy that took its credentials two seconds ago is not
\* stale.
C23_Witness ==
    /\ auth_strategy.kind = "Basic"
    /\ outcome.result = Ok
    /\ auth_strategy.username = "user"
    /\ utc_now - outcome.at >= 2 * Second
    /\ ~needs_reauthenticating(auth_strategy, utc_now)

\* The strategy is a Bearer one that has adopted a token.
BearerAdopted ==
    /\ auth_strategy.kind = "Bearer"
    /\ outcome.result = Ok
    /\ auth_strategy.token # None

\* C24: a Bearer state needs re-authentication exactly when
\* now - issued_at >= ttl: with a ttl of one second and issued_at defaulted
\* to now, not before a second has passed since the authentication and
\* from then on.
C24_StaleExactlyAtLifetime ==
    BearerAdopted =>
        ( needs_reauthenticating(auth_strategy, utc_now)
          <=> utc_now - auth_strategy.created_at
                >= auth_strategy.expires_in * Second )

\* ------------------------------------------------- client cache properties

\* The cached client of key needs no renewal: it is not a bearer token
\* whose lifetime has ended.
CachedFresh(key) ==
    /\ key \in DOMAIN docker_clients_store
    /\ LET a == docker_clients_store[key].authentication IN
       a.kind = "Token" => now < a.expires_at

\* Task p's call of get_client is at the label at.
GetClientAt(p, at) == ptask[p].kind = "get_client" /\ ppc[p] = at

\* C25: client cache read path.  A call of get_client that finds a
\* client for its key whose authentication needs no renewal returns that
\* same client from under the read guard: no upstream request is sent, the
\* write lock is not taken and the cache map is left as it was.
C25_Step ==
    \A p \in Procs :
        ( /\ GetClientAt(p, "gc_read")
          /\ ppc'[p] # "gc_read"
          /\ CachedFresh(ptask[p].container_ref) )
        => /\ ppc'[p] = "idle"
           /\ ptask'[p].result = Ok
           /\ ptask'[p].client = docker_clients_store[ptask[p].container_ref]
           /\ ptask'[p].requests = <<>>
           /\ clientsLock' = clientsLock
           /\ clientsLock.writer # p
           /\ docker_clients_store' = docker_clients_store

C25_ReadPath == [][C25_Step]_vars

\* A call of get_client has returned the cached client without an upstream
\* request; the cache holds clients.
C25_Witness ==
    \E p \in Procs :
        /\ GetClientAt(p, "idle")
        /\ ptask[p].result = Ok
        /\ ptask[p].requests = <<>>
        /\ ptask[p].lookups = 1
        /\ CachedFresh(ptask[p].container_ref)
        /\ ptask[p].client = docker_clients_store[ptask[p].container_ref]

\* A client that has completed authentication.
AuthenticatedClient(client) ==
    client.authentication.kind \in {"Anonymous", "Token"}

\* The upstream requests of one full run of authenticate: the probe
\* first, and no second probe.
OneAuthentication(requests) ==
    /\ Len(requests) >= 1
    /\ requests[1].kind = "probe"
    /\ \A i \in 2..Len(requests) : requests[i].kind # "probe"

\* C26: client cache write path.  A call of get_client whose key is absent
\* or whose cached client needs renewal goes on to the write lock, builds
\* a fresh client that has no authentication, runs authenticate on it from
\* the probe on, and on success puts the new client in the place of the
\* entry, the other entries untouched and the old client never changed in
\* between; a client that get_client returns has completed authentication,
\* and one taken from the cache needed no renewal when it was taken.
C26_Step ==
    \A p \in Procs :
        LET key == ptask[p].container_ref IN
        /\ ( /\ GetClientAt(p, "gc_read")
             /\ ppc'[p] # "gc_read"
             /\ ~CachedFresh(key) )
           => ppc'[p] = "gc_write" /\ docker_clients_store' = docker_clients_store
        /\ ( GetClientAt(p, "gc_write") /\ ppc'[p] # "gc_write" )
           => /\ ppc'[p] = "a_start"
              /\ ptask'[p].client = DockerClient_new("r", IF key = "r/c" THEN "c" ELSE "d")
              /\ ptask'[p].client.authentication = NoAuthentication
              /\ ptask'[p].requests = <<>>
              /\ docker_clients_store' = docker_clients_store
        /\ ( ptask[p].kind = "get_client" /\ clientsLock.writer = p
             /\ ppc[p] # "gc_insert" )
           => docker_clients_store' = docker_clients_store
        /\ ( GetClientAt(p, "gc_insert") /\ ptask[p].result = Ok
             /\ ppc'[p] # "gc_insert" )
           => /\ OneAuthentication(ptask[p].requests)
              /\ AuthenticatedClient(ptask[p].client)
              /\ key \in DOMAIN docker_clients_store'
              /\ docker_clients_store'[key] = ptask[p].client
              /\ \A k \in DOMAIN docker_clients_store \ {key} :
                    /\ k \in DOMAIN docker_clients_store'
                    /\ docker_clients_store'[k] = docker_clients_store[k]
              /\ ppc'[p] = "idle"
              /\ ptask'[p].result = Ok
              /\ ptask'[p].client = ptask[p].client
        /\ ( ptask[p].kind = "get_client" /\ ppc[p] # "idle"
             /\ ppc'[p] = "idle" /\ ptask'[p].result = Ok )
           => /\ AuthenticatedClient(ptask'[p].client)
              /\ ptask'[p].requests = <<>> => CachedFresh(key)

C26_WritePath == [][C26_Step]_vars

\* A call of get_client has replaced the stale client of its key with a
\* newly authenticated one.
C26_Witness ==
    \E p \in Procs :
        /\ GetClientAt(p, "idle")
        /\ ptask[p].result = Ok
        /\ OneAuthentication(ptask[p].requests)
        /\ now > 0
        /\ ptask[p].client.authentication.kind = "Token"
        /\ ptask[p].client.authentication.expires_at > now
        /\ docker_clients_store[ptask[p].container_ref] = ptask[p].client
        /\ \E q \in Procs \ {p} :
              /\ GetClientAt(q, "idle")
              /\ ptask[q].container_ref = ptask[p].container_ref
              /\ ptask[q].result = Ok
              /\ ptask[q].client.authentication.kind = "Token"
              /\ ptask[q].client.authentication.expires_at <= now

\* The probes among the upstream requests of a call.
Probes(requests) == {i \in 1..Len(requests) : requests[i].kind = "probe"}

\* C27: callers that race on a stale or missing key.  Each call of
\* get_client authenticates at most once; a call that returns a client
\* returns an authenticated one; the cache changes only when a call whose
\* authenticate succeeded inserts its own authenticated client under its
\* key, which then holds exactly that client; so every entry of the cache
\* is an authenticated client, never an unauthenticated or half-built one.
C27_Step ==
    /\ \A p \in Procs :
        LET key == ptask[p].container_ref IN
        /\ ptask'[p].kind = "get_client"
              => Cardinality(Probes(ptask'[p].requests)) <= 1
        /\ ( ptask'[p].kind = "get_client" /\ ppc'[p] = "idle"
             /\ ptask'[p].result = Ok )
              => AuthenticatedClient(ptask'[p].client)
        /\ ( GetClientAt(p, "gc_insert") /\ ptask[p].result = Ok
             /\ ppc'[p] # "gc_insert" )
              => /\ key \in DOMAIN docker_clients_store'
                 /\ docker_clients_store'[key] = ptask[p].client
    /\ docker_clients_store' # docker_clients_store
        => \E p \in Procs :
            /\ GetClientAt(p, "gc_insert")
            /\ ptask[p].result = Ok
            /\ AuthenticatedClient(ptask[p].client)
            /\ docker_clients_store' =
                 [k \in DOMAIN docker_clients_store \cup {ptask[p].container_ref} |->
                    IF k = ptask[p].container_ref THEN ptask[p].client
                    ELSE docker_clients_store[k]]
    /\ \A k \in DOMAIN docker_clients_store' :
          AuthenticatedClient(docker_clients_store'[k])

C27_RacingCallers == [][C27_Step]_vars

\* Two callers raced on one missing key: no time has passed, so no token
\* has become stale, yet both authenticated; they were handed different
\* clients and the cache holds the client of one of them.
C27_Witness ==
    /\ now = 0
    /\ \A p \in Procs :
        /\ GetClientAt(p, "idle")
        /\ ptask[p].result = Ok
        /\ OneAuthentication(ptask[p].requests)
        /\ AuthenticatedClient(ptask[p].client)
    /\ \E p, q \in Procs :
        /\ p # q
        /\ ptask[p].container_ref = ptask[q].container_ref
        /\ ptask[p].client # ptask[q].client
        /\ docker_clients_store[ptask[p].container_ref] = ptask[p].client

\* Task p's call of get_client is inside authenticate, between two
\* answers of the upstream.
Authenticating(p) ==
    /\ ptask[p].kind = "get_client"
    /\ ppc[p] \in {"a_start", "a_probe", "a_token", "a_verify"}

\* C28: while the client of key A is being authenticated, a call of
\* get_client for another key B whose cached client needs no renewal is
\* not stalled: it can take the read guard and return without waiting for
\* A's upstream exchange.
C28_OtherKeyNotStalled ==
    \A p, q \in Procs :
        ( /\ p # q
          /\ Authenticating(p)
          /\ GetClientAt(q, "gc_read")
          /\ ptask[q].container_ref # ptask[p].container_ref
          /\ CachedFresh(ptask[q].container_ref) )
        => CanRead(clientsLock)

\* C29: a failed authentication inside get_client stores nothing.  From
\* the moment a call holds the write lock the cache map does not change
\* unless its authenticate succeeded; when authenticate failed the call
\* returns the error, which surfaces as a 500, gives up the write lock and
\* leaves every entry of the map as it was: none inserted, replaced or
\* removed.
C29_Step ==
    \A p \in Procs :
        /\ ( ptask[p].kind = "get_client" /\ clientsLock.writer = p
             /\ ptask[p].result # Ok )
           => docker_clients_store' = docker_clients_store
        /\ ( GetClientAt(p, "gc_insert") /\ ptask[p].result # Ok
             /\ ppc'[p] # "gc_insert" )
           => /\ ppc'[p] = "idle"
              /\ ptask'[p].result = ptask[p].result
              /\ ptask'[p].result.err # ""
                    => presp'[p].status = 500 /\ presp'[p].state = "done"
              /\ clientsLock.writer = p
              /\ clientsLock'.writer = NoProc
              /\ CanWrite(clientsLock')
              /\ docker_clients_store' = docker_clients_store

C29_FailedAuthenticationStoresNothing == [][C29_Step]_vars

\* A call of get_client for a key that has a stale client has failed with
\* an error after the verification of a token was refused; the stale
\* client is still the entry and the lock is free.
C29_Witness ==
    \E p \in Procs :
        /\ GetClientAt(p, "idle")
        /\ ptask[p].result # Ok
        /\ ptask[p].result.err # ""
        /\ Len(ptask[p].requests) = 3
        /\ presp[p].status = 500
        /\ ptask[p].container_ref \in DOMAIN docker_clients_store
        /\ ~CachedFresh(ptask[p].container_ref)
        /\ CanWrite(clientsLock)

\* --------------------------------------------------- validation properties

\* The request of task p carries a repository name, a reference or a
\* digest that is not valid: the name or the reference is ".." or blank,
\* or the digest is not of the form algo:hex.
InvalidProxyBlobRequest(p) ==
    /\ ptask[p].kind = "proxy_blob"
    /\ \/ ~ref_is_valid(ptask[p].container_ref)
       \/ ~tag_is_valid(ptask[p].reference)
       \/ SplitOnce(ptask[p].reference) = <<"none", 0>>

\* C30: a request with an invalid repository name, an invalid reference or
\* a malformed digest is rejected before any side effect: proxy_blob never
\* looks into the client cache, sends an upstream request or creates a
\* cache file for it, and the answer it gives is a 400.
C30_RejectedBeforeSideEffects ==
    \A p \in Procs :
        InvalidProxyBlobRequest(p)
        => /\ ptask[p].lookups = 0
           /\ ptask[p].requests = <<>>
           /\ ~ptask[p].created
           /\ ppc[p] = "idle" => presp[p].status = 400

\* ------------------------------------------------------- layout properties

\* The layout of the storage: root, repository, the kind of object, its
\* name.
Layout(root, name, kind, leaf) ==
    Segments(root) \o Segments(name) \o <<kind>> \o Segments(leaf)

\* C31: the path resolver maps (root, repository, digest) to
\* root/repository/blobs/digest, (root, repository, reference) to
\* root/repository/manifests/reference and root/repository/meta/reference,
\* and (temp root, upload id) to temp root/blobs/upload-id, with no other
\* segment, for every input.
C31_PathLayout ==
    /\ resolved.fn = "blob_path"
         => resolved.path = Layout(resolved.root, resolved.name, "blobs", resolved.leaf)
    /\ resolved.fn = "manifest_path"
         => resolved.path = Layout(resolved.root, resolved.name, "manifests", resolved.leaf)
    /\ resolved.fn = "manifest_meta"
         => resolved.path = Layout(resolved.root, resolved.name, "meta", resolved.leaf)
    /\ resolved.fn = "temporary_blob_path"
         => resolved.path = Segments(resolved.root) \o <<"blobs">> \o resolved.leaf

\* ---------------------------------------------- proxy stream properties

\* Task q is a cache miss that has created the cache file at path and
\* whose stream has not ended.
MissWriting(q, path) ==
    /\ ptask[q].kind = "proxy_blob"
    /\ ppc[q] = "pb_stream"
    /\ ptask[q].created
    /\ ptask[q].path = path

\* C32: a cache hit is never served from a file that a concurrent miss
\* for the same digest is still writing: whenever the cache-hit check of a
\* request finds a file at the cache path while such a miss is under way,
\* the file already holds the complete upstream bytes.
C32_Step ==
    \A p \in Procs :
        ( /\ ppc[p] = "idle"
          /\ ppc'[p] = "pb_open"
          /\ \E q \in Procs \ {p} : MissWriting(q, ptask'[p].path) )
        => proxyFs'[ptask'[p].path] = UpstreamBytes

C32_NoHitOnFileBeingWritten == [][C32_Step]_vars

\* The cache-file writes that the handle of task p's request has handed
\* to the blocking pool, among ws.
WritesOf(p, ws) == {op \in ws : op.owner = p /\ op.seq = ptask[p].seq}

\* C33: in the tee stream the first failure from either side ends the
\* pass.  An item polled when the upstream read fails, or when the cache
\* file's handle reports a failed write, is an error item that forwards
\* and writes nothing and ends the response; once a response has failed,
\* no further chunk of its upstream stream is read, handed to the cache
\* file or forwarded downstream.
C33_Step ==
    \A p \in Procs :
        LET t == ptask[p] IN
        /\ ( /\ t.kind = "proxy_blob"
             /\ ppc[p] = "pb_stream"
             /\ presp'[p] # presp[p]
             /\ t.inner_stream # <<>>
             /\ (t.failed \/ Head(t.inner_stream) = StreamErr) )
           => /\ presp'[p].state \in {"failed", "dropped"}
              /\ presp'[p].body = presp[p].body
              /\ writes' = writes
              /\ ppc'[p] = "idle"
        /\ ( /\ t.kind = "proxy_blob"
             /\ presp[p].state = "failed"
             /\ ptask'[p].seq = t.seq )
           => /\ presp'[p] = presp[p]
              /\ ptask'[p].inner_stream = t.inner_stream
              /\ ptask'[p].pos = t.pos
              /\ WritesOf(p, writes') \subseteq WritesOf(p, writes)

C33_FirstFailureEndsPass == [][C33_Step]_vars

\* A miss has ended on the error of a failed cache-file write, with a part
\* of the upstream body forwarded and the rest neither written nor
\* forwarded.
C33_Witness ==
    \E p \in Procs :
        /\ ptask[p].kind = "proxy_blob"
        /\ ppc[p] = "idle"
        /\ presp[p].state = "failed"
        /\ ptask[p].failed
        /\ ptask[p].inner_stream = << <<2>> >>
        /\ presp[p].body = <<1>>
        /\ WritesOf(p, writes) = {}

\* ------------------------------------------- proxy manifest alias properties

\* C34: after a successful proxy manifest fetch by a tag that resolved
\* upstream to a digest, the proxy store holds the tag-named content and
\* metadata files, equal to the digest-named ones, also when the digest
\* was already cached by an earlier fetch under another reference.
C34_TagAliasAfterFetch ==
    \A p \in Procs :
        LET t == ptask[p]
            tag_path == manifest_path(t.container_ref, t.reference)
            tag_meta == manifest_meta(t.container_ref, t.reference)
            hash_meta == manifest_meta(t.container_ref, t.head.hash)
        IN
        ( /\ t.kind = "proxy_manifest"
          /\ t.solo
          /\ ~t.created
          /\ t.reference[1] = "tag"
          /\ ppc[p] = "idle"
          /\ presp[p].status = 200
          /\ presp[p].state = "done" )
        => /\ tag_path \in DOMAIN proxyFs
           /\ t.path \in DOMAIN proxyFs
           /\ proxyFs[tag_path] = proxyFs[t.path]
           /\ tag_meta \in DOMAIN proxyFs
           /\ hash_meta \in DOMAIN proxyFs
           /\ proxyFs[tag_meta] = proxyFs[hash_meta]

\* ------------------------------------------- concurrent manifest properties

\* The upload of task p was answered 201 and was saved whole: its digest is
\* the digest of the bytes it received.
SavedWhole(p) ==
    /\ Answered(p, "put_manifest")
    /\ resp[p].status = 201
    /\ task[p].docker_hash = <<"sha256:", Sha256(Flatten(task[p].body))>>

\* The metadata text upload p writes.
MetadataOf(p) ==
    to_string([hash |-> StripSha256(task[p].docker_hash),
               content_type |-> task[p].content_type])

\* C35: under two concurrent manifest uploads of different content to the
\* same tag of one repository, once both have completed and each was saved
\* whole, the tag-named metadata records the digest of the tag-named
\* content file: the tag's content and its sidecar come from the same
\* upload.
C35_TagContentMatchesSidecar ==
    \A p, q \in Procs :
        LET tag_path == manifest_path(task[p].container_ref, task[p].manifest_ref)
            tag_meta == manifest_meta(task[p].container_ref, task[p].manifest_ref)
        IN
        ( /\ p # q
          /\ SavedWhole(p) /\ SavedWhole(q)
          /\ task[p].manifest_ref[1] = "tag"
          /\ task[q].manifest_ref = task[p].manifest_ref
          /\ task[q].container_ref = task[p].container_ref
          /\ Flatten(task[p].body) # Flatten(task[q].body)
          /\ blocking = {}
          /\ tag_path \in DOMAIN regFs /\ tag_meta \in DOMAIN regFs
          /\ regFs[tag_path] \in {Flatten(task[p].body), Flatten(task[q].body)}
          /\ regFs[tag_meta] \in {MetadataOf(p), MetadataOf(q)} )
        => /\ from_str_ok(regFs[tag_meta])
           /\ from_str(regFs[tag_meta]).hash = <<"hex", Sha256(regFs[tag_path])>>

\* ------------------------------------------- upload session properties (2)

\* Task p answers 202 to an append in this step.
AppendAnswered(p) ==
    /\ pc[p] = "wb_write" /\ task[p].kind = "append"
    /\ pc'[p] = "idle" /\ resp'[p].status = 202

\* Task p is the only task that has served requests, and its last answer is
\* a 202 to an append on session u: lastActivity[u] is the time of that
\* append.
LastServedAppend(p, u) ==
    /\ Answered(p, "append") /\ resp[p].status = 202 /\ resp[p].uuid = u
    /\ \A q \in Procs \ {p} : pc[q] = "idle" /\ resp[q] = NoResp

C36_Step ==
    \A p \in Procs :
        /\ (AppendAnswered(p) /\ task[p].upload \in DOMAIN uploads')
            => uploads'[task[p].upload].last_interacted_with = now
        /\ \A u \in DOMAIN uploads :
            ( /\ Sweeps
              /\ LastServedAppend(p, u)
              /\ now - lastActivity[u] < UPLOAD_PRUNE_AGE )
            => u \in DOMAIN uploads'

\* C36: each successful append to a session refreshes the session's
\* last-activity timestamp, so a session that received a chunk less than
\* UPLOAD_PRUNE_AGE before a sweep is not removed by that sweep, however
\* long ago it was created.
C36_AppendRefreshesTimestamp == [][C36_Step]_vars


\* Task p answers 201 to a finalize request in this step.
FinalizeAnswered(p) ==
    /\ pc[p] = "del" /\ task[p].kind = "finalize"
    /\ pc'[p] = "idle" /\ resp'[p].status = 201

C37_Step ==
    \A p \in Procs :
        FinalizeAnswered(p)
            => blob_path(task[p].container_ref, SplitOnce(task[p].digest))
                  \in DOMAIN regFs'

\* C37: for every successful finalize request, the blob is stored under the
\* repository and the digest named in the request (the path echoed in the
\* Location header), also when the session was created under a different
\* repository name.
C37_StoredWhereRequested == [][C37_Step]_vars

\* The positions of a finalize or cancel handler between the lookup of the
\* session and its removal from the store: the final append, the move, the
\* deletion of the temporary file.
FilesystemSteps == {"wb_check", "wb_open", "wb_write", "fin_rename", "cleanup", "cleanup_rm"}

\* The handler of task p returns from one of its filesystem steps in this
\* step: the step failed.
FilesystemStepFails(p) ==
    /\ task[p].kind \in {"finalize", "cancel"}
    /\ pc[p] \in FilesystemSteps
    /\ pc'[p] = "idle"

\* The last chunk of the finalize request of task p was not written: the
\* write failed and no later write reported the failure.
AppendLost(p) == task[p].kind = "finalize" /\ task[p].pendingErr

C38_Step ==
    /\ \A p \in Procs :
          \/ FilesystemStepFails(p)
          \/ AppendLost(p) /\ pc[p] # "idle" /\ pc'[p] = "idle"
          => /\ resp'[p].status = 500
             /\ resp'[p].code = "UNKNOWN"
             /\ uploads' = uploads
    /\ \A u \in DOMAIN uploads :
          u \notin DOMAIN uploads'
              => \E p \in Procs : pc[p] = "del" /\ task[p].upload = u /\ pc'[p] = "idle"

\* C38: if the final append or the move fails during finalize, or the
\* deletion of the temporary file fails during cancel, the request fails
\* with an internal error and the session stays registered in the store
\* under its id: a handler removes the session only after its filesystem
\* step has succeeded.
C38_FailureKeepsSession == [][C38_Step]_vars

\* ---------------------------------------------- client cache properties (2)

\* Only a caller inside the write path of get_client holds the write guard.
GuardHeldInside ==
    \A p \in Procs :
        clientsLock.writer = p
            => ppc[p] \in {"a_start", "a_probe", "a_token", "a_verify", "gc_insert"}

\* C39: get_client is deadlock-free.  A caller holds no guard while it waits
\* for the write guard and has dropped the write guard when it returns, on
\* the success path and on the error path, so under fair scheduling every
\* call of every caller eventually returns.
C39_EveryCallReturns ==
    /\ []GuardHeldInside
    /\ \A p \in Procs : (ppc[p] # "idle") ~> (ppc[p] = "idle")

\* A caller waits for the write guard while the holder of the guard is
\* about to return the error of a failed authentication.
C39_Witness ==
    \E p, q \in Procs :
        /\ p # q
        /\ ppc[p] = "gc_write" /\ ptask[p].kind = "get_client"
        /\ clientsLock.writer = q
        /\ ppc[q] = "gc_insert" /\ ~authenticate_ok(ptask[q].result)

\* The positions of a caller inside get_client and the authenticate call
\* it makes.
InGetClient == {"gc_read", "gc_write", "gc_insert", "a_start", "a_probe", "a_token", "a_verify"}

\* The get_client call of task p ends in this step.
GetClientEnds(p) ==
    /\ ptask[p].kind # "authenticate"
    /\ ppc[p] \in InGetClient
    /\ ppc'[p] \notin InGetClient

C40_Step ==
    \A p \in Procs :
        (GetClientEnds(p) /\ ref_is_valid(ptask[p].container_ref))
            => /\ presp'[p] # ProxyPanicked
               /\ \/ ppc'[p] # "idle"
                  \/ ptask'[p].result = Ok
                  \/ presp'[p] = ProxyErr(FromDockerClientError)

\* C40: for every key that passes reference validation, get_client ends by
\* returning a client or a typed error; a key that cannot be split into
\* (registry, container), an unreachable upstream or a 401 without a
\* WWW-Authenticate header never aborts the request task.
C40_NeverAborts == [][C40_Step]_vars

============================================================================
